---- MODULE Spec2Model ----
(***************************************************************************)
(* A model of the generational, non-moving collector of src/main/memory.c: *)
(* node pages, the circular doubly-linked generation lists, the write      *)
(* barrier, RunGenCollect, the finalizer registry and R_gc_internal.       *)
(*                                                                         *)
(* Heap nodes are numbered; node n lives in page n \div PageSlots.  The    *)
(* pegs of the generation lists are negative numbers, NULL is -1.          *)
(***************************************************************************)
EXTENDS Integers, Sequences, FiniteSets, TLC

\* ------------------------------------------------------------------ bounds
\* nodes per page: (R_PAGE_SIZE - sizeof(PAGE_HEADER)) / NODE_SIZE(c), scaled down
PageSlots == 2
\* initial R_NSize (the default is 350000 cons cells), scaled down
InitNSize == 6
\* size of the pointer protection stack, R_PPStackSize, scaled down
R_PPStackSize == 4
\* number of API calls the mutator makes in one run
MaxOps == 6
\* mutator operations in a run of the finalizer program
MaxFinOps == 5
\* depth of nested collections started from inside finalizers
MaxNest == 2
\* width of unsigned int in bits (32), scaled down
UIntBits == 8
\* the blocks malloc hands out for large vectors before it returns NULL
MaxLarge == 2
\* (LONG_MAX / sizeof(VECREC)) - sizeof(SEXPREC_ALIGN), the number of vector
\* cells at which allocVector refuses a request, scaled down
MaxVecCells == 24
\* the cells of the argument lists of matchArgs: two formals, two supplied
\* arguments, and for each call two actuals and two cells of a ... list
MaxArgCells == 12

\* --------------------------------------------------------- program constants
NULL == -1
NUM_NODE_CLASSES == 8
NUM_OLD_GENERATIONS == 2
LEVEL_0_FREQ == 20
LEVEL_1_FREQ == 5
LARGE_NODE_CLASS == NUM_NODE_CLASSES - 1
NUM_SMALL_NODE_CLASSES == NUM_NODE_CLASSES - 1
NodeClassSize == <<0, 1, 2, 4, 6, 8, 16>>
collect_counts_max == <<LEVEL_0_FREQ, LEVEL_1_FREQ>>

Classes == 0 .. (NUM_NODE_CLASSES - 1)
SmallClasses == 0 .. (NUM_SMALL_NODE_CLASSES - 1)
Gens == 0 .. (NUM_OLD_GENERATIONS - 1)

\* the pages malloc can hand out before it returns NULL
MaxPages == ((InitNSize + PageSlots - 1) \div PageSlots) + 1
Pages == 0 .. (MaxPages - 1)
\* the blocks of the large vectors come after the slots of the pages
LargeBlocks == (MaxPages * PageSlots) .. (MaxPages * PageSlots + MaxLarge - 1)
Node == 0 .. (MaxPages * PageSlots + MaxLarge - 1)

\* the Peg SEXPRECs of R_GenHeap[c]
NewPeg(c) == -(10 * (c + 1))
OldPeg(c, g) == NewPeg(c) - 1 - g
OldToNewPeg(c, g) == NewPeg(c) - 1 - NUM_OLD_GENERATIONS - g
Pegs == {NewPeg(c) : c \in Classes}
          \cup {OldPeg(c, g) : c \in Classes, g \in Gens}
          \cup {OldToNewPeg(c, g) : c \in Classes, g \in Gens}
Cell == Node \cup Pegs

\* UnmarkedNodeTemplate: a zeroed sxpinfo; the payload of a malloc'ed slot is
\* never read before an allocator initialises it
UnmarkedNodeTemplate ==
  [type |-> "NILSXP", mark |-> 0, gcgen |-> 0, gccls |-> 0, gp |-> 0,
   car |-> NULL, cdr |-> NULL, tag |-> NULL, attrib |-> NULL, length |-> 0]

\* s->sxpinfo = UnmarkedNodeTemplate.sxpinfo: header bits reset, payload kept
ResetInfo(n) ==
  [n EXCEPT !.type = "NILSXP", !.mark = 0, !.gcgen = 0, !.gccls = 0, !.gp = 0]

\* ------------------------------------------------------------- list macros
NODE_IS_MARKED(h, s) == h.sx[s].mark = 1
NODE_GENERATION(h, s) == h.sx[s].gcgen
NODE_CLASS(h, s) == h.sx[s].gccls
NEXT_NODE(h, s) == h.nx[s]
PREV_NODE(h, s) == h.pv[s]

NODE_GEN_IS_YOUNGER(h, s, g) ==
  (~ NODE_IS_MARKED(h, s)) \/ NODE_GENERATION(h, s) < g

NODE_IS_OLDER(h, x, y) ==
  NODE_IS_MARKED(h, x) /\
    ((~ NODE_IS_MARKED(h, y)) \/ NODE_GENERATION(h, x) > NODE_GENERATION(h, y))

UNSNAP_NODE(h, s) ==
  LET next == h.nx[s]
      prev == h.pv[s]
  IN [h EXCEPT !.nx[prev] = next, !.pv[next] = prev]

SNAP_NODE(h, s, t) ==
  LET next == t
      prev == h.pv[t]
  IN [h EXCEPT !.nx[s] = next, !.pv[next] = s, !.nx[prev] = s, !.pv[s] = prev]

BULK_MOVE(h, from_peg, to_peg) ==
  LET first_old == h.nx[from_peg]
      last_old == h.pv[from_peg]
      first_new == h.nx[to_peg]
  IN [h EXCEPT !.pv[first_old] = to_peg, !.nx[to_peg] = first_old,
               !.pv[first_new] = last_old, !.nx[last_old] = first_new,
               !.nx[from_peg] = from_peg, !.pv[from_peg] = from_peg]

\* the members of the list anchored at peg, in NEXT_NODE order
RECURSIVE ListFrom(_, _, _)
ListFrom(h, s, peg) ==
  IF s = peg THEN << >> ELSE <<s>> \o ListFrom(h, h.nx[s], peg)

ListOf(h, peg) == ListFrom(h, h.nx[peg], peg)

SeqToSet(q) == {q[i] : i \in 1 .. Len(q)}


\* -------------------------------------------------------- node children
\* R_NilValue is the first node InitMemory takes: GetNewPage leaves Free at the
\* last slot of the first page
R_NilValue == PageSlots - 1

\* DO_CHILDREN: the children of n in the order the macro visits them
Children(h, n) ==
  LET x == h.sx[n]
      a == IF x.attrib # R_NilValue THEN <<x.attrib>> ELSE << >>
  IN CASE x.type \in {"NILSXP", "BUILTINSXP", "SPECIALSXP", "CHARSXP",
                      "LGLSXP", "INTSXP", "REALSXP", "CPLXSXP"} -> a
       [] x.type = "ENVSXP" -> a \o <<x.car, x.cdr, x.tag>>
       [] x.type \in {"CLOSXP", "PROMSXP", "LISTSXP", "LANGSXP", "DOTSXP",
                      "SYMSXP"} -> a \o <<x.tag, x.car, x.cdr>>
       [] x.type = "EXTPTRSXP" -> a \o <<x.cdr, x.tag>>

\* ------------------------------------------------------------ forwarding
\* history: fwd[s] counts how often s is put on forwarded_nodes in one pass
FORWARD_NODE(h, s) ==
  IF s # NULL /\ ~ NODE_IS_MARKED(h, s)
  THEN LET h1 == [h EXCEPT !.sx[s].mark = 1]
           h2 == UNSNAP_NODE(h1, s)
       IN [h2 EXCEPT !.nx[s] = h.forwarded_nodes, !.forwarded_nodes = s,
                     !.fwd[s] = @ + 1]
  ELSE h

RECURSIVE ForwardSeq(_, _, _)
ForwardSeq(h, q, i) ==
  IF i > Len(q) THEN h ELSE ForwardSeq(FORWARD_NODE(h, q[i]), q, i + 1)

FORWARD_CHILDREN(h, n) == ForwardSeq(h, Children(h, n), 1)

RECURSIVE PROCESS_NODES(_)
PROCESS_NODES(h) ==
  IF h.forwarded_nodes = NULL THEN h
  ELSE LET s == h.forwarded_nodes
           c == NODE_CLASS(h, s)
           g == NODE_GENERATION(h, s)
           h1 == [h EXCEPT !.forwarded_nodes = h.nx[s]]
           h2 == SNAP_NODE(h1, s, OldPeg(c, g))
           h3 == [h2 EXCEPT !.gh[c].OldCount[g] = @ + 1]
       IN PROCESS_NODES(FORWARD_CHILDREN(h3, s))

\* ------------------------------------------- managing old-to-new references
\* history: the "snapping into wrong generation" message has been printed
WrongGeneration(h, s, gen) ==
  [h EXCEPT !.wrong_gen = @ \/ NODE_GENERATION(h, s) # gen]

\* an AGE_NODE that leaves the generation of the node as it is
AGE_NODE_SameGeneration(h, s, g) ==
  IF s # NULL /\ NODE_GEN_IS_YOUNGER(h, s, g)
  THEN LET h1 == IF NODE_IS_MARKED(h, s)
                 THEN [h EXCEPT
                         !.gh[NODE_CLASS(h, s)].OldCount[NODE_GENERATION(h, s)] = @ - 1]
                 ELSE [h EXCEPT !.sx[s].mark = 1]
           h3 == UNSNAP_NODE(h1, s)
       IN [h3 EXCEPT !.nx[s] = h.forwarded_nodes, !.forwarded_nodes = s]
  ELSE h

AGE_NODE(h, s, g) ==
  IF s # NULL /\ NODE_GEN_IS_YOUNGER(h, s, g)
  THEN LET h1 == IF NODE_IS_MARKED(h, s)
                 THEN [h EXCEPT
                         !.gh[NODE_CLASS(h, s)].OldCount[NODE_GENERATION(h, s)] = @ - 1]
                 ELSE [h EXCEPT !.sx[s].mark = 1]
           h2 == [h1 EXCEPT !.sx[s].gcgen = g]
           h3 == UNSNAP_NODE(h2, s)
       IN [h3 EXCEPT !.nx[s] = h.forwarded_nodes, !.forwarded_nodes = s]
  ELSE h

RECURSIVE AgeSeq(_, _, _, _)
AgeSeq(h, q, i, g) ==
  IF i > Len(q) THEN h ELSE AgeSeq(AGE_NODE(h, q[i], g), q, i + 1, g)

RECURSIVE AgeDrain(_, _)
AgeDrain(h, gen) ==
  IF h.forwarded_nodes = NULL THEN h
  ELSE LET s == h.forwarded_nodes
           c == NODE_CLASS(h, s)
           h1 == WrongGeneration([h EXCEPT !.forwarded_nodes = h.nx[s]], s, gen)
           h2 == SNAP_NODE(h1, s, OldPeg(c, gen))
           h3 == [h2 EXCEPT !.gh[c].OldCount[gen] = @ + 1]
       IN AgeDrain(AgeSeq(h3, Children(h3, s), 1, gen), gen)

\* forwarded_nodes is a local of AgeNodeAndChildren, NULL on entry and on exit
AgeNodeAndChildren(h, s, gen) ==
  AgeDrain(AGE_NODE([h EXCEPT !.forwarded_nodes = NULL], s, gen), gen)

\* a barrier that snaps x into the OldToNew list without unsnapping it first
old_to_new_Snapped(h, x, y) ==
  SNAP_NODE(h, x, OldToNewPeg(NODE_CLASS(h, x), NODE_GENERATION(h, x)))

\* a barrier that takes x off the count of its generation
old_to_new_Uncounted(h, x, y) ==
  [SNAP_NODE(UNSNAP_NODE(h, x), x,
             OldToNewPeg(NODE_CLASS(h, x), NODE_GENERATION(h, x)))
     EXCEPT !.gh[NODE_CLASS(h, x)].OldCount[NODE_GENERATION(h, x)] = @ - 1]

old_to_new(h, x, y) ==
  SNAP_NODE(UNSNAP_NODE(h, x), x,
            OldToNewPeg(NODE_CLASS(h, x), NODE_GENERATION(h, x)))

\* a setter that stores without the write barrier
CHECK_OLD_TO_NEW_Omitted(h, x, y) == h

\* history: the barrier has changed an OldCount
NoteBarrier(h, moved) ==
  [moved EXCEPT !.barrier_miscount =
     @ \/ \E c \in 0 .. (NUM_NODE_CLASSES - 1) :
            moved.gh[c].OldCount # h.gh[c].OldCount]

CHECK_OLD_TO_NEW(h, x, y) ==
  IF NODE_IS_OLDER(h, x, y) THEN NoteBarrier(h, old_to_new(h, x, y)) ELSE h

\* ------------------------------------------------ page allocation and release
UsedPages(h) == UNION {SeqToSet(h.gh[c].pages) : c \in Classes}

\* malloc(R_PAGE_SIZE) fails when no page is left
MallocFails(h) == Pages \subseteq UsedPages(h)

\* the block malloc returns: the lowest page not in use
MallocPage(h) == CHOOSE p \in Pages \ UsedPages(h) :
                   \A q \in Pages \ UsedPages(h) : p <= q

Slot(page, i) == page * PageSlots + i

RECURSIVE GetNewPageLoop(_, _, _, _, _)
GetNewPageLoop(h, node_class, page, i, base) ==
  IF i >= PageSlots THEN h
  ELSE LET s == Slot(page, i)
           h1 == [h EXCEPT !.gh[node_class].AllocCount = @ + 1]
           h2 == SNAP_NODE(h1, s, base)
           h3 == [h2 EXCEPT !.sx[s] = [UnmarkedNodeTemplate EXCEPT
                                          !.gccls = node_class],
                            !.gh[node_class].Free = s]
       IN GetNewPageLoop(h3, node_class, page, i + 1, s)

GetNewPage(h, node_class) ==
  LET page == MallocPage(h)
      h1 == [h EXCEPT !.gh[node_class].pages = <<page>> \o @,
                      !.gh[node_class].PageCount = @ + 1]
  IN GetNewPageLoop(h1, node_class, page, 0, NewPeg(node_class))

RECURSIVE ReleasePageLoop(_, _, _, _)
ReleasePageLoop(h, page, node_class, i) ==
  IF i >= PageSlots THEN h
  ELSE LET s == Slot(page, i)
           h1 == UNSNAP_NODE(h, s)
       IN ReleasePageLoop([h1 EXCEPT !.gh[node_class].AllocCount = @ - 1],
                          page, node_class, i + 1)

\* a release that leaves PageCount as it is
ReleasePage_Counted(h, page, node_class) ==
  LET h1 == ReleasePageLoop(h, page, node_class, 0)
      gone == {Slot(page, i) : i \in 0 .. (PageSlots - 1)}
  IN [h1 EXCEPT !.sx = [n \in Node |-> IF n \in gone THEN UnmarkedNodeTemplate
                                       ELSE h1.sx[n]],
                !.nx = [n \in Cell |-> IF n \in gone THEN NULL ELSE h1.nx[n]],
                !.pv = [n \in Cell |-> IF n \in gone THEN NULL ELSE h1.pv[n]]]

\* free(page): the slots' memory is gone
ReleasePage(h, page, node_class) ==
  LET h1 == ReleasePageLoop(h, page, node_class, 0)
      gone == {Slot(page, i) : i \in 0 .. (PageSlots - 1)}
  IN [h1 EXCEPT !.gh[node_class].PageCount = @ - 1,
                !.sx = [n \in Node |-> IF n \in gone THEN UnmarkedNodeTemplate
                                       ELSE h1.sx[n]],
                !.nx = [n \in Cell |-> IF n \in gone THEN NULL ELSE h1.nx[n]],
                !.pv = [n \in Cell |-> IF n \in gone THEN NULL ELSE h1.pv[n]]]

NO_FREE_NODES(h) == h.R_NodesInUse >= h.R_NSize
VHEAP_FREE(h) == h.R_VSize - h.R_LargeVallocSize - h.R_SmallVallocSize

\* CLASS_GET_FREE_NODE needs a page that malloc cannot give
GetFreeNodeFails(h, c) == h.gh[c].Free = NewPeg(c) /\ MallocFails(h)

\* CLASS_GET_FREE_NODE: the heap after the macro; the node is FreeNode(h, c)
FreeNode(h, c) ==
  IF h.gh[c].Free = NewPeg(c) THEN GetNewPage(h, c).gh[c].Free
  ELSE h.gh[c].Free

\* history: inuse holds the nodes handed out and not reclaimed since;
\* handed_in_use is set when node n of class c is handed out while it is
\* marked, not on New[c], or in use
NoteHanded(h, n, c) ==
  [h EXCEPT !.handed_in_use = @ \/ h.sx[n].mark = 1
                                \/ n \notin SeqToSet(ListOf(h, NewPeg(c)))
                                \/ n \in h.inuse,
            !.inuse = @ \cup {n}]

\* the node at Free is taken and Free moves to its successor
TakeFree(h, n, c) ==
  [NoteHanded(h, n, c) EXCEPT !.gh[c].Free = h.nx[n],
                              !.R_NodesInUse = @ + 1]

TakeFrom(h, c) == TakeFree(h, h.gh[c].Free, c)

CLASS_GET_FREE_NODE(h, c) ==
  TakeFrom(IF h.gh[c].Free = NewPeg(c) THEN GetNewPage(h, c) ELSE h, c)


\* ---------------------------------------------------------- heap sizing
\* (int) of a double quotient n / d, d > 0: truncation toward zero
Trunc(n, d) == IF n >= 0 THEN n \div d ELSE -((-n) \div d)

\* tuning constants; the fractions are kept as percentages
R_MinFreeFracPct == 20
R_MaxKeepFracPct == 50
R_PageReleaseFreq == 1
R_NGrowFracPct == 70
R_NShrinkFracPct == 30
R_VGrowFracPct == 70
R_VShrinkFracPct == 30
R_NGrowIncrFracPct == 5
R_NShrinkIncrFracPct == 20
R_NGrowIncrMin == 40000
R_NShrinkIncrMin == 0
R_VGrowIncrFracPct == 5
R_VShrinkIncrFracPct == 20
R_VGrowIncrMin == 80000
R_VShrinkIncrMin == 0

\* sizeof(VECREC), which InitMemory stores in vsfac
vsfac == 8

\* INT_MAX
IntMax == 2147483647

\* R_SetMaxVSize(size), size in bytes
R_SetMaxVSize(h, size) ==
  IF size = IntMax THEN h
  ELSE IF Trunc(size, vsfac) >= h.R_VSize
  THEN [h EXCEPT !.R_MaxVSize = Trunc(size + 1, vsfac)]
  ELSE h

\* R_SetMaxNSize(size)
R_SetMaxNSize(h, size) ==
  IF size >= h.R_NSize THEN [h EXCEPT !.R_MaxNSize = size] ELSE h

\* a growth step without the part proportional to R_NSize
AdjustNSize_FixedStep(h, NNeeded) ==
  IF NNeeded * 100 > R_NGrowFracPct * h.R_NSize
  THEN LET change == R_NGrowIncrMin
       IN IF h.R_MaxNSize - h.R_NSize >= change
          THEN [h EXCEPT !.R_NSize = @ + change] ELSE h
  ELSE h

AdjustNSize(h, NNeeded) ==
  IF NNeeded * 100 > R_NGrowFracPct * h.R_NSize
  THEN LET change == R_NGrowIncrMin + Trunc(R_NGrowIncrFracPct * h.R_NSize, 100)
       IN IF h.R_MaxNSize - h.R_NSize >= change
          THEN [h EXCEPT !.R_NSize = @ + change] ELSE h
  ELSE IF NNeeded * 100 < R_NShrinkFracPct * h.R_NSize
  THEN LET n1 == Trunc(100 * h.R_NSize
                         - (100 * R_NShrinkIncrMin + R_NShrinkIncrFracPct * h.R_NSize),
                       100)
           n2 == IF n1 < NNeeded
                 THEN (IF NNeeded < h.R_MaxNSize THEN NNeeded ELSE h.R_MaxNSize)
                 ELSE n1
           n3 == IF n2 < h.orig_R_NSize THEN h.orig_R_NSize ELSE n2
       IN [h EXCEPT !.R_NSize = n3]
  ELSE h

\* vect_occup is computed once, before R_VSize is changed
AdjustVSize(h, VNeeded) ==
  LET V0 == h.R_VSize
      h1 == IF VNeeded > V0 /\ VNeeded < h.R_MaxVSize
            THEN [h EXCEPT !.R_VSize = VNeeded] ELSE h
  IN IF VNeeded * 100 > R_VGrowFracPct * V0
     THEN LET change == R_VGrowIncrMin + Trunc(R_VGrowIncrFracPct * h1.R_NSize, 100)
          IN IF h1.R_MaxVSize - h1.R_VSize >= change
             THEN [h1 EXCEPT !.R_VSize = @ + change] ELSE h1
     ELSE IF VNeeded * 100 < R_VShrinkFracPct * V0
     THEN LET v1 == Trunc(100 * h1.R_VSize
                            - (100 * R_VShrinkIncrMin + R_VShrinkIncrFracPct * h1.R_VSize),
                          100)
              v2 == IF v1 < VNeeded THEN VNeeded ELSE v1
              v3 == IF v2 < h1.orig_R_VSize THEN h1.orig_R_VSize ELSE v2
          IN [h1 EXCEPT !.R_VSize = v3]
     ELSE h1

AdjustHeapSize(h, size_needed) ==
  LET R_MinNFree == Trunc(h.orig_R_NSize * R_MinFreeFracPct, 100)
      R_MinVFree == Trunc(h.orig_R_VSize * R_MinFreeFracPct, 100)
      NNeeded == h.R_NodesInUse + R_MinNFree
      VNeeded == h.R_SmallVallocSize + h.R_LargeVallocSize + size_needed + R_MinVFree
  IN AdjustVSize(AdjustNSize(h, NNeeded), VNeeded)

\* ------------------------------------------------------- releasing pages
PageInUse(h, page) ==
  \E j \in 0 .. (PageSlots - 1) : NODE_IS_MARKED(h, Slot(page, j))

\* a release that keeps no free nodes in reserve
RECURSIVE MaxRel_NoKeep(_, _, _, _)
MaxRel_NoKeep(h, i, gen, maxrel) ==
  IF gen >= NUM_OLD_GENERATIONS THEN maxrel
  ELSE MaxRel_NoKeep(h, i, gen + 1, maxrel - h.gh[i].OldCount[gen])

RECURSIVE MaxRel(_, _, _, _)
MaxRel(h, i, gen, maxrel) ==
  IF gen >= NUM_OLD_GENERATIONS THEN maxrel
  ELSE MaxRel(h, i, gen + 1,
              Trunc(100 * maxrel - (100 + R_MaxKeepFracPct) * h.gh[i].OldCount[gen],
                    100))

\* history: the pages of class i released by the last collection, and
\* whether a page was ever released with a slot that was marked or was not a
\* free node of New space
NoteRelease(h, page, i) ==
  [h EXCEPT !.released[i] = @ + 1,
            !.released_in_use =
               @ \/ \E j \in 0 .. (PageSlots - 1) :
                      \/ h.sx[Slot(page, j)].mark = 1
                      \/ Slot(page, j) \notin SeqToSet(ListOf(h, NewPeg(i)))]

\* the walk over the page chain of class i: k indexes the chain as it was when
\* the walk began, kept holds the pages walked over and not released
RECURSIVE ReleaseWalk(_, _, _, _, _, _, _)
ReleaseWalk(h, i, chain, k, kept, rel_pages, maxrel_pages) ==
  IF ~ (rel_pages < maxrel_pages /\ k <= Len(chain))
  THEN [h EXCEPT !.gh[i].pages = kept \o SubSeq(chain, k, Len(chain))]
  ELSE IF ~ PageInUse(h, chain[k])
       THEN ReleaseWalk(ReleasePage(NoteRelease(h, chain[k], i), chain[k], i),
                        i, chain, k + 1, kept, rel_pages + 1, maxrel_pages)
       ELSE ReleaseWalk(h, i, chain, k + 1, Append(kept, chain[k]),
                        rel_pages, maxrel_pages)

RECURSIVE ReleaseClasses(_, _)
ReleaseClasses(h, i) ==
  IF h.release_count # R_PageReleaseFreq \/ i >= NUM_SMALL_NODE_CLASSES THEN h
  ELSE LET maxrel == MaxRel(h, i, 0, h.gh[i].AllocCount)
           maxrel_pages == IF maxrel > 0 THEN maxrel \div PageSlots ELSE 0
           h1 == ReleaseWalk(h, i, h.gh[i].pages, 1, << >>, 0, maxrel_pages)
       IN ReleaseClasses([h1 EXCEPT !.gh[i].Free = h1.nx[NewPeg(i)]], i + 1)

\* History: release_tried tells whether the last collection went through
\* the page chains.
TryToReleasePages(h) ==
  IF h.release_count = 0
  THEN ReleaseClasses([h EXCEPT !.release_count = R_PageReleaseFreq,
                                !.release_tried = TRUE], 0)
  ELSE [h EXCEPT !.release_count = @ - 1]

\* vector cells of 8 bytes for a CHARSXP of n bytes and for n ints of 4 bytes
BYTE2VEC(n) == IF n > 0 THEN ((n - 1) \div 8) + 1 ELSE 0
INT2VEC(n) == IF n > 0 THEN ((n * 4 - 1) \div 8) + 1 ELSE 0

\* the size in bytes ReleaseLargeFreeVectors works out for the vector s
LargeBytes(h, s) ==
  IF h.sx[s].type = "CHARSXP" THEN h.sx[s].length + 1
  ELSE h.sx[s].length * 4

\* free(s) for a large vector: the block goes back to malloc
FreeLarge(h, s) ==
  [h EXCEPT !.large = @ \ {s}, !.sx[s] = UnmarkedNodeTemplate,
            !.nx[s] = NULL, !.pv[s] = NULL, !.valloc[s] = 0]

\* a release that takes the length of the vector for its size in cells
ReleaseLarge_ByLength(h, s) ==
  FreeLarge([UNSNAP_NODE(h, s) EXCEPT
               !.R_LargeVallocSize = @ - h.sx[s].length,
               !.gh[LARGE_NODE_CLASS].AllocCount = @ - 1], s)

\* one turn of the loop of ReleaseLargeFreeVectors
ReleaseLarge(h, s) ==
  FreeLarge([UNSNAP_NODE(h, s) EXCEPT
               !.R_LargeVallocSize = @ - BYTE2VEC(LargeBytes(h, s)),
               !.gh[LARGE_NODE_CLASS].AllocCount = @ - 1], s)

RECURSIVE ReleaseLargeFrom(_, _)
ReleaseLargeFrom(h, s) ==
  IF s = NewPeg(LARGE_NODE_CLASS) THEN h
  ELSE ReleaseLargeFrom(ReleaseLarge(h, s), h.nx[s])

\* the data pointer of a vector is never NULL: every node on New[LARGE] is
\* released
ReleaseLargeFreeVectors(h) ==
  ReleaseLargeFrom(h, h.nx[NewPeg(LARGE_NODE_CLASS)])

\* ---------------------------------------------------------- node sorting
RECURSIVE SortSlots(_, _, _, _, _)
SortSlots(h, i, chain, k, j) ==
  IF k > Len(chain) THEN h
  ELSE IF j >= PageSlots THEN SortSlots(h, i, chain, k + 1, 0)
  ELSE LET s == Slot(chain[k], j)
       IN SortSlots(IF ~ NODE_IS_MARKED(h, s) THEN SNAP_NODE(h, s, NewPeg(i)) ELSE h,
                    i, chain, k, j + 1)

RECURSIVE SortClasses(_, _)
SortClasses(h, i) ==
  IF i >= NUM_SMALL_NODE_CLASSES THEN h
  ELSE LET h1 == [h EXCEPT !.nx[NewPeg(i)] = NewPeg(i), !.pv[NewPeg(i)] = NewPeg(i)]
           h2 == SortSlots(h1, i, h1.gh[i].pages, 1, 0)
       IN SortClasses([h2 EXCEPT !.gh[i].Free = h2.nx[NewPeg(i)]], i + 1)

SortNodes(h) == SortClasses(h, 0)


\* ------------------------------------------------------------ finalization
\* the entries of the registry, from R_fin_registered along CDR
RECURSIVE FinList(_, _)
FinList(h, s) ==
  IF s = R_NilValue THEN << >> ELSE <<s>> \o FinList(h, h.sx[s].cdr)

RECURSIVE CheckFinalizersFrom(_, _)
CheckFinalizersFrom(h, s) ==
  IF s = R_NilValue THEN h
  ELSE CheckFinalizersFrom(
         IF ~ NODE_IS_MARKED(h, h.sx[s].car) /\ h.sx[s].gp = 0
         THEN [h EXCEPT !.sx[s].gp = 1] ELSE h,
         h.sx[s].cdr)

\* a check that flags every entry, whether its object is marked or not
CheckFinalizers_FlagAll(h, fin) ==
  [h EXCEPT !.sx = [n \in Node |->
                      IF n \in SeqToSet(FinList(h, fin))
                      THEN [h.sx[n] EXCEPT !.gp = 1] ELSE h.sx[n]]]

CheckFinalizers(h, fin) == CheckFinalizersFrom(h, fin)

\* ---------------------------------------------------- the generational collector
\* determine number of generations to collect
RECURSIVE SelectLevel(_)
SelectLevel(h) ==
  LET n == h.num_old_gens_to_collect
  IN IF n < NUM_OLD_GENERATIONS
     THEN IF h.collect_counts[n] <= 0
          THEN SelectLevel([h EXCEPT !.collect_counts[n] = collect_counts_max[n + 1],
                                     !.num_old_gens_to_collect = n + 1])
          ELSE [h EXCEPT !.collect_counts[n] = @ - 1]
     ELSE h

\* eliminate old-to-new references in generations to collect
RECURSIVE AbsorbChildren(_, _, _, _)
AbsorbChildren(h, q, k, gen) ==
  IF k > Len(q) THEN h
  ELSE AbsorbChildren(AgeNodeAndChildren(h, q[k], gen), q, k + 1, gen)

RECURSIVE AbsorbList(_, _, _, _)
AbsorbList(h, i, gen, s) ==
  IF s = OldToNewPeg(i, gen) THEN h
  ELSE LET next == h.nx[s]
           h1 == AbsorbChildren(h, Children(h, s), 1, gen)
           h2 == WrongGeneration(UNSNAP_NODE(h1, s), s, gen)
           h3 == SNAP_NODE(h2, s, OldPeg(i, gen))
       IN AbsorbList(h3, i, gen, next)

\* a collection that leaves the OldToNew lists as they are
AbsorbOldToNew_Skipped(h, gen, i) == h

RECURSIVE AbsorbOldToNew(_, _, _)
AbsorbOldToNew(h, gen, i) ==
  IF gen >= h.num_old_gens_to_collect THEN h
  ELSE IF i >= NUM_NODE_CLASSES THEN AbsorbOldToNew(h, gen + 1, 0)
  ELSE AbsorbOldToNew(AbsorbList(h, i, gen, h.nx[OldToNewPeg(i, gen)]), gen, i + 1)

\* a collection that moves the old nodes to New with their mark bits set
UnmarkOld_KeepMark(h, gen, i) ==
  LET members == SeqToSet(ListOf(h, OldPeg(i, gen)))
      h1 == [h EXCEPT !.gh[i].OldCount[gen] = 0,
                      !.sx = IF members = {} THEN @ ELSE [n \in Node |->
                                IF n \in members
                                THEN [h.sx[n] EXCEPT
                                        !.gcgen = IF gen < NUM_OLD_GENERATIONS - 1
                                                  THEN gen + 1 ELSE @]
                                ELSE h.sx[n]]]
  IN IF h1.nx[OldPeg(i, gen)] # OldPeg(i, gen)
     THEN BULK_MOVE(h1, OldPeg(i, gen), NewPeg(i)) ELSE h1

\* a collection that leaves the generation bits of the old nodes alone
UnmarkOld_KeepGeneration(h, gen, i) ==
  LET members == SeqToSet(ListOf(h, OldPeg(i, gen)))
      h1 == [h EXCEPT !.gh[i].OldCount[gen] = 0,
                      !.sx = IF members = {} THEN @ ELSE [n \in Node |->
                                IF n \in members
                                THEN [h.sx[n] EXCEPT !.mark = 0]
                                ELSE h.sx[n]]]
  IN IF h1.nx[OldPeg(i, gen)] # OldPeg(i, gen)
     THEN BULK_MOVE(h1, OldPeg(i, gen), NewPeg(i)) ELSE h1

\* unmark all marked nodes in old generations to be collected and move to New
UnmarkOld(h, gen, i) ==
  LET members == SeqToSet(ListOf(h, OldPeg(i, gen)))
      h1 == [h EXCEPT !.gh[i].OldCount[gen] = 0,
                      !.sx = IF members = {} THEN @ ELSE [n \in Node |->
                                IF n \in members
                                THEN [h.sx[n] EXCEPT
                                        !.gcgen = IF gen < NUM_OLD_GENERATIONS - 1
                                                  THEN gen + 1 ELSE @,
                                        !.mark = 0]
                                ELSE h.sx[n]]]
  IN IF h1.nx[OldPeg(i, gen)] # OldPeg(i, gen)
     THEN BULK_MOVE(h1, OldPeg(i, gen), NewPeg(i)) ELSE h1

RECURSIVE UnmarkCollected(_, _, _)
UnmarkCollected(h, gen, i) ==
  IF gen >= h.num_old_gens_to_collect THEN h
  ELSE IF i >= NUM_NODE_CLASSES THEN UnmarkCollected(h, gen + 1, 0)
  ELSE UnmarkCollected(UnmarkOld(h, gen, i), gen, i + 1)

\* scan nodes in uncollected old generations with old-to-new pointers
RECURSIVE ScanList(_, _, _)
ScanList(h, peg, s) ==
  IF s = peg THEN h
  ELSE LET h1 == FORWARD_CHILDREN(h, s) IN ScanList(h1, peg, h1.nx[s])

\* a collection that does not scan the OldToNew lists
ScanOldToNew_Skipped(h, gen, i) == h

RECURSIVE ScanOldToNew(_, _, _)
ScanOldToNew(h, gen, i) ==
  IF gen < h.num_old_gens_to_collect \/ gen >= NUM_OLD_GENERATIONS THEN h
  ELSE IF i >= NUM_NODE_CLASSES THEN ScanOldToNew(h, gen + 1, 0)
  ELSE ScanOldToNew(ScanList(h, OldToNewPeg(i, gen), h.nx[OldToNewPeg(i, gen)]),
                    gen, i + 1)

\* a count of the cons cells only
SumOldCount_ConsCells(h) ==
  LET RECURSIVE Sum(_)
      Sum(gen) == IF gen >= NUM_OLD_GENERATIONS THEN 0
                  ELSE h.gh[0].OldCount[gen] + Sum(gen + 1)
  IN Sum(0)

SumOldCount(h) ==
  LET RECURSIVE Sum(_, _)
      Sum(gen, i) == IF gen >= NUM_OLD_GENERATIONS THEN 0
                     ELSE IF i >= NUM_NODE_CLASSES THEN Sum(gen + 1, 0)
                     ELSE h.gh[i].OldCount[gen] + Sum(gen, i + 1)
  IN Sum(0, 0)

SumSmallValloc(h) ==
  LET RECURSIVE Sum(_, _)
      Sum(gen, i) == IF gen >= NUM_OLD_GENERATIONS THEN 0
                     ELSE IF i >= NUM_SMALL_NODE_CLASSES THEN Sum(gen + 1, 1)
                     ELSE h.gh[i].OldCount[gen] * NodeClassSize[i + 1] + Sum(gen, i + 1)
  IN Sum(0, 1)

\* update heap statistics
UpdateStatistics(h) ==
  LET collected == h.R_NSize - SumOldCount(h)
  IN [h EXCEPT !.R_Collected = collected,
               !.R_SmallVallocSize = SumSmallValloc(h),
               !.R_NodesInUse = h.R_NSize - collected]

\* one pass of RunGenCollect, from the label again to the heap statistics
\* history: the registry entries whose object the main marking pass left
\* unmarked, and the entries that already had their flag set
Observe(h, fin) ==
  [h EXCEPT !.fin_unmarked = {s \in SeqToSet(FinList(h, fin)) :
                                ~ NODE_IS_MARKED(h, h.sx[s].car)},
            !.fin_flagged = {s \in SeqToSet(FinList(h, fin)) : h.sx[s].gp # 0}]

\* history: the nodes handed out that the pass has left unmarked are
\* reclaimed
SweepInUse(h) == [h EXCEPT !.inuse = {n \in @ : h.sx[n].mark = 1}]

\* reset Free pointers
ResetFree(h) ==
  [SweepInUse(h) EXCEPT !.gh = [i \in Classes |->
                                 [h.gh[i] EXCEPT !.Free = h.nx[NewPeg(i)]]]]

\* a collection that leaves the Free pointers where they were
MarkPass_StaleFree(h, roots, fin) ==
  LET h1 == AbsorbOldToNew(h, 0, 0)
      h2 == UnmarkCollected(h1, 0, 0)
      h3 == [h2 EXCEPT !.forwarded_nodes = NULL, !.fwd = [n \in Node |-> 0]]
      h4 == ScanOldToNew(h3, h3.num_old_gens_to_collect, 0)
      h5 == ForwardSeq(h4, roots, 1)
      h6 == PROCESS_NODES(h5)
      h7 == CheckFinalizers(Observe(h6, fin), fin)
      h8 == PROCESS_NODES(FORWARD_NODE(h7, fin))
  IN UpdateStatistics(SweepInUse(ReleaseLargeFreeVectors(h8)))

MarkPass(h, roots, fin) ==
  LET h1 == AbsorbOldToNew(h, 0, 0)
      h2 == UnmarkCollected(h1, 0, 0)
      h3 == [h2 EXCEPT !.forwarded_nodes = NULL, !.fwd = [n \in Node |-> 0]]
      h4 == ScanOldToNew(h3, h3.num_old_gens_to_collect, 0)
      h5 == ForwardSeq(h4, roots, 1)
      h6 == PROCESS_NODES(h5)
      h7 == CheckFinalizers(Observe(h6, fin), fin)
      h8 == PROCESS_NODES(FORWARD_NODE(h7, fin))
  IN UpdateStatistics(ResetFree(ReleaseLargeFreeVectors(h8)))

\* the passes of one RunGenCollect call, with the restarts at again
RECURSIVE CollectPasses(_, _, _, _)

\* a collector whose first restart collects the same generations again
Escalate_SameLevel(h1, roots, fin, size_needed) ==
  IF h1.num_old_gens_to_collect < NUM_OLD_GENERATIONS
  THEN IF h1.R_Collected * 100 < R_MinFreeFracPct * h1.R_NSize
          \/ (VHEAP_FREE(h1) - size_needed) * 100 < R_MinFreeFracPct * h1.R_VSize
       THEN IF h1.R_Collected <= 0 \/ VHEAP_FREE(h1) < size_needed
            THEN CollectPasses([h1 EXCEPT !.num_old_gens_to_collect =
                                            IF h1.restarts = 0 THEN @ ELSE @ + 1,
                                          !.restarts = @ + 1],
                               roots, fin, size_needed)
            ELSE [h1 EXCEPT !.num_old_gens_to_collect = @ + 1]
       ELSE [h1 EXCEPT !.num_old_gens_to_collect = 0]
  ELSE [h1 EXCEPT !.num_old_gens_to_collect = 0]

\* a collector that leaves num_old_gens_to_collect alone when a pass has
\* freed enough
Escalate_KeepLevel(h1, roots, fin, size_needed) ==
  IF h1.num_old_gens_to_collect < NUM_OLD_GENERATIONS
  THEN IF h1.R_Collected * 100 < R_MinFreeFracPct * h1.R_NSize
          \/ (VHEAP_FREE(h1) - size_needed) * 100 < R_MinFreeFracPct * h1.R_VSize
       THEN IF h1.R_Collected <= 0 \/ VHEAP_FREE(h1) < size_needed
            THEN CollectPasses([h1 EXCEPT !.num_old_gens_to_collect = @ + 1,
                                          !.restarts = @ + 1],
                               roots, fin, size_needed)
            ELSE [h1 EXCEPT !.num_old_gens_to_collect = @ + 1]
       ELSE h1
  ELSE [h1 EXCEPT !.num_old_gens_to_collect = 0]

\* after the heap statistics of a pass: collect more generations next time,
\* or at once (goto again).  History: restarts counts the jumps to again.
Escalate(h1, roots, fin, size_needed) ==
  IF h1.num_old_gens_to_collect < NUM_OLD_GENERATIONS
  THEN IF h1.R_Collected * 100 < R_MinFreeFracPct * h1.R_NSize
          \/ (VHEAP_FREE(h1) - size_needed) * 100 < R_MinFreeFracPct * h1.R_VSize
       THEN IF h1.R_Collected <= 0 \/ VHEAP_FREE(h1) < size_needed
            THEN CollectPasses([h1 EXCEPT !.num_old_gens_to_collect = @ + 1,
                                          !.restarts = @ + 1],
                               roots, fin, size_needed)
            ELSE [h1 EXCEPT !.num_old_gens_to_collect = @ + 1]
       ELSE [h1 EXCEPT !.num_old_gens_to_collect = 0]
  ELSE [h1 EXCEPT !.num_old_gens_to_collect = 0]

CollectPasses(h, roots, fin, size_needed) ==
  Escalate([MarkPass(h, roots, fin) EXCEPT
              !.gens_collected = h.num_old_gens_to_collect],
           roots, fin, size_needed)

\* a collector that adjusts the heap sizes after every collection of an old
\* generation
AdjustAndRelease_NearFull(h, size_needed) ==
  IF h.gens_collected > 0
  THEN TryToReleasePages(AdjustHeapSize(h, size_needed))
  ELSE h

\* after a full collection the heap sizes are adjusted; after any collection
\* of an old generation pages are released
AdjustAndRelease(h, size_needed) ==
  IF h.gens_collected = NUM_OLD_GENERATIONS
  THEN TryToReleasePages(AdjustHeapSize(h, size_needed))
  ELSE IF h.gens_collected > 0 THEN TryToReleasePages(h)
  ELSE h

\* after a full collection the free lists are rebuilt in address order
SortAfterFull(h) ==
  IF h.gens_collected = NUM_OLD_GENERATIONS THEN SortNodes(h) ELSE h

\* history: the level the first pass of this call starts with
StartPasses(h) ==
  [h EXCEPT !.restarts = 0, !.first_level = h.num_old_gens_to_collect,
            !.release_tried = FALSE,
            !.released = [i \in SmallClasses |-> 0]]

\* history: level_runs[0] counts the level 0 collections since the last
\* collection of a higher level, level_runs[1] the level 1 collections since
\* the last level 2 collection (gen_gc_counts[gens_collected]++)
NoteLevel(h) ==
  [h EXCEPT !.level_runs =
              [g \in Gens |-> IF g < h.gens_collected THEN 0
                              ELSE IF g = h.gens_collected THEN @[g] + 1
                              ELSE @[g]]]

RunGenCollect(h, roots, fin, size_needed) ==
  NoteLevel(
    SortAfterFull(
      AdjustAndRelease(CollectPasses(StartPasses(SelectLevel(h)), roots, fin,
                                     size_needed),
                       size_needed)))


\* ------------------------------------------------------------ InitMemory
\* initial R_VSize in vector cells, scaled down
InitVSize == 10

EmptyHeap ==
  [sx |-> [n \in Node |-> UnmarkedNodeTemplate],
   nx |-> [n \in Cell |-> IF n \in Pegs THEN n ELSE NULL],
   pv |-> [n \in Cell |-> IF n \in Pegs THEN n ELSE NULL],
   gh |-> [i \in Classes |->
             [Free |-> NewPeg(i), OldCount |-> [g \in Gens |-> 0],
              AllocCount |-> 0, PageCount |-> 0, pages |-> << >>]],
   R_NodesInUse |-> 0, R_Collected |-> 0, wrong_gen |-> FALSE,
   R_SmallVallocSize |-> 0, R_LargeVallocSize |-> 0,
   R_NSize |-> InitNSize, R_VSize |-> InitVSize,
   orig_R_NSize |-> InitNSize, orig_R_VSize |-> InitVSize,
   R_MaxNSize |-> InitNSize, R_MaxVSize |-> InitVSize,
   num_old_gens_to_collect |-> 0, gens_collected |-> 0,
   collect_counts |-> [g \in Gens |-> 0],
   release_count |-> 0, forwarded_nodes |-> NULL,
   fin_unmarked |-> {}, fin_flagged |-> {},
   large |-> {},
   \* history
   restarts |-> 0, first_level |-> 0, level_runs |-> [g \in Gens |-> 0],
   release_tried |-> FALSE, released |-> [i \in SmallClasses |-> 0],
   released_in_use |-> FALSE, barrier_miscount |-> FALSE,
   inuse |-> {}, handed_in_use |-> FALSE,
   fwd |-> [n \in Node |-> 0],
   valloc |-> [n \in LargeBlocks |-> 0]]

\* the heap after InitMemory, with the heap limits set to the initial sizes
InitMemory ==
  LET h1 == CLASS_GET_FREE_NODE(EmptyHeap, 0)
      nil == FreeNode(EmptyHeap, 0)
  IN [h1 EXCEPT !.sx[nil] = [type |-> "NILSXP", mark |-> 0, gcgen |-> 0,
                             gccls |-> 0, gp |-> 0, car |-> nil, cdr |-> nil,
                             tag |-> nil, attrib |-> nil, length |-> 0]]

\* ------------------------------------------------- the machine and its frames
\* One record m holds the program state an operation works on: the heap, the
\* protect stack, the registry, the context pointers, and the chain ctl of
\* calls in progress (the C stack), innermost last.
NoFrame ==
  [fn |-> "", pc |-> "", a |-> NULL, b |-> NULL, c |-> NULL, t |-> "",
   res |-> NULL,
   size_needed |-> 0, first |-> TRUE, s |-> NULL, last |-> NULL, next |-> NULL,
   finalizer_run |-> FALSE, savestack |-> 0, topExp |-> NULL,
   saveToplevelContext |-> 0, nextcontext |-> 0, oldsusp |-> FALSE,
   calls |-> 0, old_R_VSize |-> 0,
   \* history, read by the properties only
   ncollect |-> 0, nfin |-> 0, pass |-> 0, top_in |-> 0, expr_in |-> NULL,
   tlc_in |-> 0, nerr |-> 0, failed |-> {}, again_inuse |-> 0,
   again_vfree |-> 0]

Frame(fn, pc, a, b, t) ==
  [NoFrame EXCEPT !.fn = fn, !.pc = pc, !.a = a, !.b = b, !.t = t]

GcFrame(size_needed) ==
  [NoFrame EXCEPT !.fn = "R_gc_internal", !.pc = "again",
                  !.size_needed = size_needed]

Top(m) == m.ctl[Len(m.ctl)]
SetTop(m, f) == [m EXCEPT !.ctl[Len(m.ctl)] = f]
Push(m, f) == [m EXCEPT !.ctl = Append(@, f)]
Pop(m) == [m EXCEPT !.ctl = SubSeq(@, 1, Len(@) - 1)]

\* a call returns v: to the frame below, or to the mutator's variable reg
Return(m, v) ==
  LET m1 == Pop(m)
  IN IF m1.ctl = << >> THEN [m1 EXCEPT !.reg = v]
     ELSE SetTop(m1, [Top(m1) EXCEPT !.res = v])

\* a void function returns
ReturnVoid(m) == Pop(m)

\* error(): a jump to R_ToplevelContext.  Inside a finalizer that is the
\* context RunFinalizers set up, and the code after its SETJMP runs; otherwise
\* the host's top level takes over, which drops the C stack and the protect
\* stack.  History: the protect stack as it is when error() is called, and
\* the function that calls it.
Error(m, msg) ==
  LET m1 == [m EXCEPT !.err = msg,
                      !.hist.err = [top |-> m.top, pp |-> m.pp,
                                    fn |-> IF m.ctl = << >> THEN ""
                                           ELSE Top(m).fn]]
  IN IF m.tlc = 0
     THEN [m1 EXCEPT !.ctl = << >>, !.top = 0, !.reg = NULL, !.gctx = 0]
     ELSE LET m2 == [m1 EXCEPT !.ctl = SubSeq(@, 1, m.tlc)]
          IN SetTop(m2, [Top(m2) EXCEPT !.pc = "fin_exit", !.nerr = @ + 1,
                                        !.failed = @ \cup {Top(m2).s}])

\* protect(s)
CanProtect(m) == m.top < R_PPStackSize
Protect(m, s) == [m EXCEPT !.pp[m.top] = s, !.top = @ + 1]

\* the roots RunGenCollect forwards, in its order.  The builtin constants
\* other than R_NilValue, the global environment, the symbol table, the
\* display lists and framenames are set up by code outside memory.c and are
\* NULL after InitMemory; every context's conexit is R_NilValue.
Roots(m) ==
  <<R_NilValue>> \o (IF m.expr # NULL THEN <<m.expr>> ELSE << >>)
    \o <<m.precious>> \o [i \in 1 .. m.top |-> m.pp[i - 1]]
    \o (IF m.vstack # NULL THEN <<m.vstack>> ELSE << >>)


\* an unprotect that pops what there is when asked for more
Unprotect_Clamp(m, l) ==
  IF m.top >= l THEN [m EXCEPT !.top = @ - l] ELSE [m EXCEPT !.top = 0]

\* unprotect(l)
Unprotect(m, l) ==
  IF m.top >= l THEN [m EXCEPT !.top = @ - l]
  ELSE Error(m, "unprotect(): stack imbalance")

\* ---------------------------------------------------------- unprotect_ptr
\* the first loop of unprotect_ptr: the search runs down from the top
Occurrences(m, s) == {i \in 0 .. (m.top - 1) : m.pp[i] = s}

\* a search that runs up from the bottom of the stack
FoundAt_Bottom(m, s) ==
  CHOOSE i \in Occurrences(m, s) : \A j \in Occurrences(m, s) : i <= j

\* the index the search stops at
FoundAt(m, s) ==
  CHOOSE i \in Occurrences(m, s) : \A j \in Occurrences(m, s) : j <= i

\* R_PPStack[i] as the second loop reads it.  The loop runs i up to
\* R_PPStackTop and reads R_PPStack[i + 1]: above the top that is a stale
\* entry, and past the end of the array it is whatever lies behind the block
\* (junk).
ReadPP(m, i, junk) == IF i < R_PPStackSize THEN m.pp[i] ELSE junk

\* the second loop: every slot from i to R_PPStackTop takes the value of the
\* slot above it; a store past the end of the array does not land in the
\* stack.  History: the index found, the entry there, the top before the
\* call, and the highest indices the loop reads (rd) and writes (wr): its
\* last pass has i = R_PPStackTop.
DropEntry(m, i, junk) ==
  [m EXCEPT !.pp = [k \in 0 .. (R_PPStackSize - 1) |->
                      IF i <= k /\ k <= m.top THEN ReadPP(m, k + 1, junk)
                      ELSE m.pp[k]],
            !.top = @ - 1,
            !.hist.uptr = [n |-> @.n + 1, i |-> i, top |-> m.top,
                           s |-> m.pp[i], rd |-> m.top + 1, wr |-> m.top]]

\* unprotect_ptr(s)
unprotect_ptr(m, s, junk) ==
  IF Occurrences(m, s) = {} THEN Error(m, "unprotect_ptr: pointer not found")
  ELSE DropEntry(m, FoundAt(m, s), junk)

\* ------------------------------------------------------------- allocation
\* GET_FREE_NODE and the initialisation of a cons-class node, then return
NewNode(m, t, car, cdr) ==
  IF GetFreeNodeFails(m.heap, 0)
  THEN Error(m, "vector memory exhausted (limit reached?)")
  ELSE LET s == FreeNode(m.heap, 0)
           h1 == CLASS_GET_FREE_NODE(m.heap, 0)
           h2 == [h1 EXCEPT !.sx[s] = [ResetInfo(@) EXCEPT
                              !.type = t, !.car = car, !.cdr = cdr,
                              !.tag = R_NilValue, !.attrib = R_NilValue]]
       IN Return([m EXCEPT !.heap = h2], s)

\* FORCE_GC with GC_TORTURE defined
FORCE_GC(m) == ~ m.inhibit

\* cons(car, cdr): frame field a is car, b is cdr
cons(m) ==
  LET f == Top(m)
  IN IF f.pc = "entry"
     THEN IF FORCE_GC(m) \/ NO_FREE_NODES(m.heap)
          THEN IF ~ CanProtect(m) THEN Error(m, "protect(): stack overflow")
               ELSE LET m1 == Protect(m, f.a)
                    IN IF ~ CanProtect(m1)
                       THEN Error(m1, "protect(): stack overflow")
                       ELSE Push(SetTop(Protect(m1, f.b),
                                        [f EXCEPT !.pc = "after_gc"]),
                                 GcFrame(0))
          ELSE NewNode(m, "LISTSXP", f.a, f.b)
     ELSE \* after R_gc_internal(0)
          LET m1 == Unprotect(m, 2)
          IN IF m.top < 2 THEN m1
             ELSE IF NO_FREE_NODES(m1.heap)
             THEN Error(m1, "cons memory exhausted (limit reached?)")
             ELSE NewNode(m1, "LISTSXP", f.a, f.b)

\* allocSExp(t): frame field t is the type
allocSExp(m) ==
  LET f == Top(m)
  IN IF f.pc = "entry"
     THEN IF FORCE_GC(m) \/ NO_FREE_NODES(m.heap)
          THEN Push(SetTop(m, [f EXCEPT !.pc = "after_gc"]), GcFrame(0))
          ELSE NewNode(m, f.t, R_NilValue, R_NilValue)
     ELSE IF NO_FREE_NODES(m.heap)
          THEN Error(m, "cons memory exhausted (limit reached?)")
          ELSE NewNode(m, f.t, R_NilValue, R_NilValue)

VectorSize(t, length) ==
  IF t = "CHARSXP" THEN BYTE2VEC(length + 1)
  ELSE IF length <= 0 THEN 0 ELSE INT2VEC(length)

\* the node class allocVector picks for size vector cells
VectorClass(size) ==
  IF size <= NodeClassSize[1 + 1] THEN 1
  ELSE IF \E i \in 2 .. (NUM_SMALL_NODE_CLASSES - 1) : size <= NodeClassSize[i + 1]
       THEN CHOOSE i \in 2 .. (NUM_SMALL_NODE_CLASSES - 1) :
              /\ size <= NodeClassSize[i + 1]
              /\ \A j \in 2 .. (i - 1) : size > NodeClassSize[j + 1]
       ELSE LARGE_NODE_CLASS

VectorAllocSize(size) ==
  IF VectorClass(size) = LARGE_NODE_CLASS THEN size
  ELSE NodeClassSize[VectorClass(size) + 1]

\* allocSExpNonCons(t) as allocVector calls it for a vector without cells:
\* inside GC_PROT and with a free node at hand, so that it does not collect
allocSExpNonCons(m, t) ==
  IF GetFreeNodeFails(m.heap, 0)
  THEN Error(m, "vector memory exhausted (limit reached?)")
  ELSE LET s == FreeNode(m.heap, 0)
           h1 == CLASS_GET_FREE_NODE(m.heap, 0)
           h2 == [h1 EXCEPT !.sx[s] = [ResetInfo(@) EXCEPT
                              !.type = t, !.tag = R_NilValue,
                              !.attrib = R_NilValue]]
       IN Return([m EXCEPT !.heap = h2], s)

\* old_R_VSize: R_VSize as it was when allocVector looked at the heap
SavedVSize(m) ==
  IF Top(m).pc = "entry" THEN m.heap.R_VSize ELSE Top(m).old_R_VSize

\* malloc for a large vector: the lowest block not in use
MallocLarge(h) == CHOOSE s \in LargeBlocks \ h.large :
                    \A u \in LargeBlocks \ h.large : s <= u

\* the large-class branch of allocVector after malloc has returned s.
\* History: valloc[s] is what the allocation adds to R_LargeVallocSize.
NewLargeVector(h, s, t, length, size) ==
  [SNAP_NODE([h EXCEPT !.large = @ \cup {s}], s, NewPeg(LARGE_NODE_CLASS))
     EXCEPT !.sx[s] = [ResetInfo(h.sx[s]) EXCEPT
                         !.gccls = LARGE_NODE_CLASS, !.type = t,
                         !.attrib = R_NilValue, !.length = length],
            !.R_LargeVallocSize = @ + size,
            !.gh[LARGE_NODE_CLASS].AllocCount = @ + 1,
            !.valloc[s] = size]

\* the tail of allocVector: a node of a small class; for the large class a
\* malloc'ed block, or the error exit of the overflow check and of a malloc
\* that returns NULL; for no cells at all a node without payload
NewVector(m, t, size) ==
  LET node_class == VectorClass(size)
  IN IF size <= 0 THEN allocSExpNonCons(m, t)
     ELSE IF node_class = LARGE_NODE_CLASS
     THEN IF size >= MaxVecCells \/ LargeBlocks \subseteq m.heap.large
          THEN Error([m EXCEPT !.heap.R_VSize = SavedVSize(m)],
                     "cannot allocate vector of size")
          ELSE Return([m EXCEPT !.heap =
                         NewLargeVector(m.heap, MallocLarge(m.heap), t,
                                        Top(m).a, size)],
                      MallocLarge(m.heap))
     ELSE IF GetFreeNodeFails(m.heap, node_class)
     THEN Error(m, "vector memory exhausted (limit reached?)")
     ELSE LET s == FreeNode(m.heap, node_class)
              h1 == CLASS_GET_FREE_NODE(m.heap, node_class)
              h2 == [h1 EXCEPT !.sx[s] = [ResetInfo(@) EXCEPT
                                 !.gccls = node_class, !.type = t,
                                 !.attrib = R_NilValue,
                                 !.length = Top(m).a],
                               !.R_SmallVallocSize = @ + VectorAllocSize(size)]
          IN Return([m EXCEPT !.heap = h2], s)

\* an allocVector that takes its node after the collection without looking
\* at the free vector space again
allocVector_Unchecked(m) ==
  LET f == Top(m)
      size == VectorSize(f.t, f.a)
      alloc_size == VectorAllocSize(size)
  IN IF f.pc = "entry"
     THEN IF f.a < 0
          THEN Error(m, "negative length vectors are not allowed")
          ELSE IF FORCE_GC(m) \/ NO_FREE_NODES(m.heap)
                  \/ alloc_size > VHEAP_FREE(m.heap)
          THEN Push(SetTop(m, [f EXCEPT !.pc = "after_gc",
                                        !.old_R_VSize = m.heap.R_VSize]),
                    GcFrame(alloc_size))
          ELSE NewVector(m, f.t, size)
     ELSE IF NO_FREE_NODES(m.heap)
          THEN Error(m, "cons memory exhausted (limit reached?)")
          ELSE NewVector(m, f.t, size)

\* allocVector(type, length) for the vectors of small node classes that
\* memory.c itself allocates: frame field t is the type, a the length
allocVector(m) ==
  LET f == Top(m)
      size == VectorSize(f.t, f.a)
      alloc_size == VectorAllocSize(size)
  IN IF f.pc = "entry"
     THEN IF f.a < 0
          THEN Error(m, "negative length vectors are not allowed")
          ELSE IF FORCE_GC(m) \/ NO_FREE_NODES(m.heap)
                  \/ alloc_size > VHEAP_FREE(m.heap)
          THEN Push(SetTop(m, [f EXCEPT !.pc = "after_gc",
                                        !.old_R_VSize = m.heap.R_VSize]),
                    GcFrame(alloc_size))
          ELSE NewVector(m, f.t, size)
     ELSE IF NO_FREE_NODES(m.heap)
          THEN Error(m, "cons memory exhausted (limit reached?)")
          ELSE IF VHEAP_FREE(m.heap) < alloc_size
          THEN Error(m, "vector memory exhausted (limit reached?)")
          ELSE NewVector(m, f.t, size)


\* ------------------------------------------------------------ registration
\* sizeof(R_CFinalizer_t), a function pointer
CFinalizerSize == 8

\* SET_ATTRIB(x, v)
SET_ATTRIB(h, x, v) == [CHECK_OLD_TO_NEW(h, x, v) EXCEPT !.sx[x].attrib = v]

\* SET_TAG(x, v)
SET_TAG(h, x, v) == [CHECK_OLD_TO_NEW(h, x, v) EXCEPT !.sx[x].tag = v]

\* R_UnboundValue is a symbol that code outside memory.c sets up; it is NULL
\* after InitMemory
R_UnboundValue == NULL

\* GET_FREE_NODE and the initialisation of a node with three fields
NewNode3(m, t, car, cdr, tag) ==
  IF GetFreeNodeFails(m.heap, 0)
  THEN Error(m, "vector memory exhausted (limit reached?)")
  ELSE LET s == FreeNode(m.heap, 0)
           h1 == CLASS_GET_FREE_NODE(m.heap, 0)
           h2 == [h1 EXCEPT !.sx[s] = [ResetInfo(@) EXCEPT
                              !.type = t, !.car = car, !.cdr = cdr,
                              !.tag = tag, !.attrib = R_NilValue]]
       IN Return([m EXCEPT !.heap = h2], s)

\* PROTECT on each of ss in turn, where there is room for them
RECURSIVE ProtectSeq(_, _)
ProtectSeq(m, ss) ==
  IF ss = << >> THEN m ELSE ProtectSeq(Protect(m, Head(ss)), Tail(ss))

\* the loop of NewEnvironment: the values take the tags of the names
RECURSIVE NameValues(_, _, _)
NameValues(h, v, n) ==
  IF v # R_NilValue /\ n # R_NilValue
  THEN NameValues(SET_TAG(h, v, h.sx[n].tag), h.sx[v].cdr, h.sx[n].cdr)
  ELSE h

\* the frame of a new environment is named once the node is there
NamedFrame(m, v, n) ==
  IF m.err = "" THEN [m EXCEPT !.heap = NameValues(@, v, n)] ELSE m

\* NewEnvironment(namelist, valuelist, rho): frame fields a, b and c
NewEnvironment(m) ==
  LET f == Top(m)
  IN IF f.pc = "entry"
     THEN IF FORCE_GC(m) \/ NO_FREE_NODES(m.heap)
          THEN IF m.top + 3 > R_PPStackSize
               THEN Error(ProtectSeq(m, SubSeq(<<f.a, f.b, f.c>>, 1,
                                               R_PPStackSize - m.top)),
                          "protect(): stack overflow")
               ELSE Push(SetTop(ProtectSeq(m, <<f.a, f.b, f.c>>),
                                [f EXCEPT !.pc = "after_gc"]),
                         GcFrame(0))
          ELSE NamedFrame(NewNode3(m, "ENVSXP", f.b, f.c, R_NilValue), f.b, f.a)
     ELSE \* after R_gc_internal(0)
          IF m.top < 3 THEN Unprotect(m, 3)
          ELSE IF NO_FREE_NODES(m.heap)
          THEN Error(Unprotect(m, 3), "cons memory exhausted (limit reached?)")
          ELSE NamedFrame(NewNode3(Unprotect(m, 3), "ENVSXP", f.b, f.c,
                                   R_NilValue),
                          f.b, f.a)

\* a mkPROMISE that does not protect rho
mkPROMISE_ExprOnly(m) ==
  LET f == Top(m)
  IN IF f.pc = "entry"
     THEN IF FORCE_GC(m) \/ NO_FREE_NODES(m.heap)
          THEN IF m.top + 1 > R_PPStackSize
               THEN Error(m, "protect(): stack overflow")
               ELSE Push(SetTop(Protect(m, f.a), [f EXCEPT !.pc = "after_gc"]),
                         GcFrame(0))
          ELSE NewNode3(m, "PROMSXP", R_UnboundValue, f.a, f.b)
     ELSE IF m.top < 1 THEN Unprotect(m, 1)
          ELSE IF NO_FREE_NODES(m.heap)
          THEN Error(Unprotect(m, 1), "cons memory exhausted (limit reached?)")
          ELSE NewNode3(Unprotect(m, 1), "PROMSXP", R_UnboundValue, f.a, f.b)

\* mkPROMISE(expr, rho): frame fields a and b; PRVALUE is car, PREXPR is cdr
\* and PRENV is tag
mkPROMISE(m) ==
  LET f == Top(m)
  IN IF f.pc = "entry"
     THEN IF FORCE_GC(m) \/ NO_FREE_NODES(m.heap)
          THEN IF m.top + 2 > R_PPStackSize
               THEN Error(ProtectSeq(m, SubSeq(<<f.a, f.b>>, 1,
                                               R_PPStackSize - m.top)),
                          "protect(): stack overflow")
               ELSE Push(SetTop(ProtectSeq(m, <<f.a, f.b>>),
                                [f EXCEPT !.pc = "after_gc"]),
                         GcFrame(0))
          ELSE NewNode3(m, "PROMSXP", R_UnboundValue, f.a, f.b)
     ELSE \* after R_gc_internal(0)
          IF m.top < 2 THEN Unprotect(m, 2)
          ELSE IF NO_FREE_NODES(m.heap)
          THEN Error(Unprotect(m, 2), "cons memory exhausted (limit reached?)")
          ELSE NewNode3(Unprotect(m, 2), "PROMSXP", R_UnboundValue, f.a, f.b)

\* a registry kept in registration order: the new entry goes to the tail
TagHead_AtTail(m, fun) ==
  LET h1 == SET_TAG(m.heap, m.fin, fun)
      m1 == [m EXCEPT !.heap = [h1 EXCEPT !.sx[m.fin].gp = 0],
                      !.nreg = @ + 1, !.regid[m.fin] = m.nreg + 1]
      q == FinList(m1.heap, m1.fin)
  IN IF Len(q) <= 1 THEN m1
     ELSE [m1 EXCEPT !.fin = q[2],
                     !.heap.sx = [n \in Node |->
                        IF n = q[Len(q)] THEN [m1.heap.sx[n] EXCEPT !.cdr = q[1]]
                        ELSE IF n = q[1] THEN [m1.heap.sx[n] EXCEPT !.cdr = R_NilValue]
                        ELSE m1.heap.sx[n]]]

\* the entry at the head of the registry gets its tag, and its flag cleared
TagHead(m, fun) ==
  LET h1 == SET_TAG(m.heap, m.fin, fun)
  IN [m EXCEPT !.heap = [h1 EXCEPT !.sx[m.fin].gp = 0],
               !.nreg = @ + 1, !.regid[m.fin] = m.nreg + 1]

\* R_RegisterFinalizer(s, fun): frame field a is s, b is fun
R_RegisterFinalizer(m) ==
  LET f == Top(m)
  IN IF f.pc = "entry"
     THEN IF m.heap.sx[f.a].type \in {"ENVSXP", "EXTPTRSXP"}
          THEN IF m.heap.sx[f.b].type \in {"CLOSXP", "BUILTINSXP", "SPECIALSXP"}
               THEN Push(SetTop(m, [f EXCEPT !.pc = "after_cons"]),
                         Frame("cons", "entry", f.a, m.fin, ""))
               ELSE Error(m, "finalizer function must be a closure")
          ELSE Error(m, "can only finalize reference objects")
     ELSE ReturnVoid(TagHead([m EXCEPT !.fin = f.res], f.b))

\* R_RegisterCFinalizer(s, fun): frame field a is s
R_RegisterCFinalizer(m) ==
  LET f == Top(m)
  IN CASE f.pc = "entry" ->
            IF ~ CanProtect(m) THEN Error(m, "protect(): stack overflow")
            ELSE Push(SetTop(Protect(m, f.a), [f EXCEPT !.pc = "after_cons"]),
                      Frame("cons", "entry", f.a, m.fin, ""))
       [] f.pc = "after_cons" ->
            Push(SetTop([m EXCEPT !.fin = f.res],
                        [f EXCEPT !.pc = "after_alloc"]),
                 Frame("allocVector", "entry", CFinalizerSize, NULL, "CHARSXP"))
       [] f.pc = "after_alloc" ->
            LET m1 == Unprotect(TagHead(m, f.res), 1)
            IN IF m.top >= 1 THEN ReturnVoid(m1) ELSE m1

\* ------------------------------------------------------- the precious list
\* the objects on the list, from its head along CDR
RECURSIVE PreciousCars(_, _)
PreciousCars(h, list) ==
  IF h.sx[list].type = "NILSXP" THEN << >>
  ELSE <<h.sx[list].car>> \o PreciousCars(h, h.sx[list].cdr)

\* q without its first occurrence of s
RemoveFirst(q, s) ==
  IF \E i \in 1 .. Len(q) : q[i] = s
  THEN LET i == CHOOSE i \in 1 .. Len(q) :
                  q[i] = s /\ \A j \in 1 .. (i - 1) : q[j] # s
       IN SubSeq(q, 1, i - 1) \o SubSeq(q, i + 1, Len(q))
  ELSE q

\* R_PreserveObject(object): frame field a is the object.  History: the
\* objects preserved and not released since, the latest first.
R_PreserveObject(m) ==
  LET f == Top(m)
  IN IF f.pc = "entry"
     THEN Push(SetTop(m, [f EXCEPT !.pc = "after_cons"]),
               Frame("cons", "entry", f.a, m.precious, ""))
     ELSE ReturnVoid([m EXCEPT !.precious = f.res,
                               !.hist.precious = <<f.a>> \o @])

\* a release that takes every occurrence of the object off the list
RECURSIVE RecursiveRelease_All(_, _, _)
RecursiveRelease_All(h, object, list) ==
  IF h.sx[list].type # "NILSXP"
  THEN IF object = h.sx[list].car
       THEN RecursiveRelease_All(h, object, h.sx[list].cdr)
       ELSE LET r == RecursiveRelease_All(h, object, h.sx[list].cdr)
            IN [h |-> [r.h EXCEPT !.sx[list].cdr = r.v], v |-> list]
  ELSE [h |-> h, v |-> list]

\* RecursiveRelease(object, list): the heap after the call and the value
\* returned; CDR(list) is stored without the write barrier
RECURSIVE RecursiveRelease(_, _, _)
RecursiveRelease(h, object, list) ==
  IF h.sx[list].type # "NILSXP"
  THEN IF object = h.sx[list].car
       THEN [h |-> h, v |-> h.sx[list].cdr]
       ELSE LET r == RecursiveRelease(h, object, h.sx[list].cdr)
            IN [h |-> [r.h EXCEPT !.sx[list].cdr = r.v], v |-> list]
  ELSE [h |-> h, v |-> list]

\* history: the number of releases and the object of the last one
StoreReleased(m, r, object) ==
  [m EXCEPT !.heap = r.h, !.precious = r.v,
            !.hist.precious = RemoveFirst(@, object),
            !.hist.rel = [n |-> @.n + 1, object |-> object]]

\* R_ReleaseObject(object)
R_ReleaseObject(m, object) ==
  StoreReleased(m, RecursiveRelease(m.heap, object, m.precious), object)

\* ------------------------------------------------------------ the R_alloc stack
\* the buffers on the R_alloc stack, from R_VStack along ATTRIB to NULL
RECURSIVE VChainFrom(_, _, _)
VChainFrom(h, s, seen) ==
  IF s = NULL \/ s \in seen THEN << >>
  ELSE <<s>> \o VChainFrom(h, h.sx[s].attrib, seen \cup {s})

VChain(h, s) == VChainFrom(h, s, {})

\* unsigned int size = nelem * eltsize: the product is cut to the width of
\* unsigned int
RAllocSize(nelem, eltsize) == (nelem * eltsize) % (2 ^ UIntBits)

\* an R_alloc that does not chain the new buffer to the ones before it
LinkBuffer_NoChain(m, s) ==
  [m EXCEPT !.vstack = s, !.hist.chain = <<s>> \o @,
            !.hist.ralloc = [n |-> @.n + 1, res |-> s]]

\* ATTRIB(s) = R_VStack; R_VStack = s.  History: the buffers R_alloc has
\* pushed and vmaxset has not dropped, and what the last R_alloc returned.
LinkBuffer(m, s) ==
  [m EXCEPT !.heap.sx[s].attrib = m.vstack, !.vstack = s,
            !.hist.chain = <<s>> \o @,
            !.hist.ralloc = [n |-> @.n + 1, res |-> s]]

\* R_alloc(nelem, eltsize): frame field a is nelem, b is eltsize
R_alloc(m) ==
  LET f == Top(m)
  IN IF f.pc = "entry"
     THEN IF RAllocSize(f.a, f.b) > 0
          THEN Push(SetTop(m, [f EXCEPT !.pc = "after_alloc"]),
                    Frame("allocVector", "entry", RAllocSize(f.a, f.b), NULL,
                          "CHARSXP"))
          ELSE ReturnVoid([m EXCEPT !.hist.ralloc = [n |-> @.n + 1,
                                                     res |-> NULL]])
     ELSE ReturnVoid(LinkBuffer(m, f.res))

\* vmaxget(): the program keeps the value in ovmax.  History: the buffers on
\* the stack at that time.
vmaxget(m) ==
  [m EXCEPT !.ovmax = m.vstack, !.hist.vmax = [n |-> @.n + 1, chain |-> m.hist.chain]]

\* vmaxset(ovmax).  History: the buffers taken off the stack.
vmaxset(m, ovmax) ==
  [m EXCEPT !.vstack = ovmax,
            !.hist.chain = m.hist.vmax.chain,
            !.hist.dropped = @ \cup (SeqToSet(m.hist.chain)
                                       \ SeqToSet(m.hist.vmax.chain))]

\* do_gctorture(i): the old setting goes into a fresh logical vector, then
\* the flag is set; frame field t is the argument, "TRUE", "FALSE" or "NA"
do_gctorture(m) ==
  LET f == Top(m)
  IN IF f.pc = "entry"
     THEN Push(SetTop(m, [f EXCEPT !.pc = "after_alloc"]),
               Frame("allocVector", "entry", 1, NULL, "LGLSXP"))
     ELSE Return([m EXCEPT !.inhibit = IF f.t = "NA" THEN @ ELSE f.t # "TRUE"],
                 f.res)

\* do_gc: a full collection, then the vector of sizes it returns; history:
\* the number of returns, and the mutator's budget at the last one
do_gc(m) ==
  LET f == Top(m)
  IN CASE f.pc = "entry" ->
            Push(SetTop([m EXCEPT !.heap.num_old_gens_to_collect =
                                     NUM_OLD_GENERATIONS],
                        [f EXCEPT !.pc = "after_gc"]),
                 GcFrame(0))
       [] f.pc = "after_gc" ->
            Push(SetTop(m, [f EXCEPT !.pc = "after_alloc"]),
                 Frame("allocVector", "entry", 10, NULL, "INTSXP"))
       [] f.pc = "after_alloc" ->
            IF ~ CanProtect(m) THEN Error(m, "protect(): stack overflow")
            ELSE Return([Unprotect(Protect(m, f.res), 1) EXCEPT
                           !.hist.do_gc = [n |-> @.n + 1, ops |-> m.ops]],
                        f.res)


\* ------------------------------------------------ R_gc_internal, RunFinalizers
\* SETCDR(x, y) for x other than NULL and R_NilValue
SETCDR(h, x, y) == [CHECK_OLD_TO_NEW(h, x, y) EXCEPT !.sx[x].cdr = y]

\* s points into a page the allocator still holds
InHeap(h, s) ==
  s \in Node /\ ((s \div PageSlots) \in UsedPages(h) \/ s \in h.large)

\* a read through a pointer into freed memory: the run is abandoned
Abort(m) == [m EXCEPT !.abort = TRUE, !.ctl = << >>]

\* interrupts left suspended after the collection
END_SUSPEND_INTERRUPTS_Omitted(m, oldsusp) == m

\* END_SUSPEND_INTERRUPTS
END_SUSPEND_INTERRUPTS(m, oldsusp) == [m EXCEPT !.susp = oldsusp]

\* the finalizer of entry s is called: cfun(val) or eval(e, R_GlobalEnv)
Invoke(m) ==
  LET f == Top(m)
  IN [SetTop(m, [f EXCEPT !.pc = "in_finalizer"]) EXCEPT
        !.log = Append(@, [id |-> m.regid[f.s],
                           onreg |-> f.s \in SeqToSet(FinList(m.heap, m.fin)),
                           susp |-> m.susp, pass |-> f.pass,
                           depth |-> Len(m.ctl), ncollect |-> f.ncollect,
                           nerr |-> f.nerr])]

\* the entry is removed from the registry before its finalizer runs
Unlink(m, last, next) ==
  IF last = R_NilValue THEN [m EXCEPT !.fin = next]
  ELSE [m EXCEPT !.heap = SETCDR(m.heap, last, next)]

\* RunFinalizers, from an entry s with its flag set up to the finalizer call
StartFinalizer(m, next) ==
  LET f == Top(m)
      depth == Len(m.ctl)
      f1 == [f EXCEPT !.next = next, !.finalizer_run = TRUE,
                      !.nextcontext = m.gctx, !.saveToplevelContext = m.tlc,
                      !.topExp = m.expr]
      m1 == SetTop([m EXCEPT !.gctx = depth], f1)
  IN IF ~ CanProtect(m1) THEN Error(m1, "protect(): stack overflow")
     ELSE LET m2 == Protect(m1, m.expr)
              m3 == SetTop([m2 EXCEPT !.tlc = depth],
                           [f1 EXCEPT !.savestack = m2.top])
          IN IF f.last # R_NilValue /\ ~ InHeap(m.heap, f.last) THEN Abort(m3)
             ELSE LET m4 == Unlink(m3, f.last, next)
                  IN IF ~ CanProtect(m4)
                     THEN Error(m4, "protect(): stack overflow")
                     ELSE LET m5 == Protect(m4, f.s)
                          IN IF m5.heap.sx[m5.heap.sx[f.s].tag].type = "CHARSXP"
                             THEN Invoke(m5)
                             ELSE Push(SetTop(m5, [Top(m5) EXCEPT !.pc = "lcons1"]),
                                       Frame("cons", "entry", m5.heap.sx[f.s].car,
                                             R_NilValue, ""))

\* R_gc_internal returns; history: what the call did
GcReturn(m) ==
  ReturnVoid([m EXCEPT !.hist.gc =
                [ncollect |-> Top(m).ncollect, nfin |-> Top(m).nfin,
                 finalizer_run |-> Top(m).finalizer_run,
                 size_needed |-> Top(m).size_needed,
                 again_inuse |-> Top(m).again_inuse,
                 again_vfree |-> Top(m).again_vfree,
                 R_NSize |-> m.heap.R_NSize]])

\* history: RunFinalizers returns
FinReturn(m) ==
  [m EXCEPT !.hist.fin =
     [pass |-> Top(m).pass, nerr |-> Top(m).nerr, failed |-> Top(m).failed,
      top_in |-> Top(m).top_in, expr_in |-> Top(m).expr_in,
      tlc_in |-> Top(m).tlc_in, top_out |-> m.top, expr_out |-> m.expr,
      tlc_out |-> m.tlc,
      on_registry |-> SeqToSet(FinList(m.heap, m.fin)),
      flagged |-> {s \in SeqToSet(FinList(m.heap, m.fin)) : m.heap.sx[s].gp # 0}]]

\* one turn of the loop of RunFinalizers, and its return to R_gc_internal
RunFinalizers(m) ==
  LET f == Top(m)
  IN IF f.s = R_NilValue
     THEN IF f.finalizer_run /\ (NO_FREE_NODES(m.heap)
                                 \/ f.size_needed > VHEAP_FREE(m.heap))
          THEN SetTop(FinReturn(m),
                      [f EXCEPT !.pc = "again",
                                !.again_inuse = m.heap.R_NodesInUse,
                                !.again_vfree = VHEAP_FREE(m.heap)])
          ELSE GcReturn(FinReturn(m))
     ELSE IF ~ InHeap(m.heap, f.s) THEN Abort(m)
     ELSE IF m.heap.sx[f.s].gp # 0 THEN StartFinalizer(m, m.heap.sx[f.s].cdr)
     ELSE SetTop(m, [f EXCEPT !.last = f.s, !.s = m.heap.sx[f.s].cdr])

\* RunFinalizers that leaves the protect stack and R_CurrentExpr as the
\* finalizer left them
FinExit_NoRestore(m) ==
  LET f == Top(m)
      m1 == [m EXCEPT !.gctx = f.nextcontext, !.tlc = f.saveToplevelContext]
  IN SetTop(Unprotect(m1, 1),
            [f EXCEPT !.s = f.next, !.pc = "fin_loop", !.calls = 0])

\* RunFinalizers after the finalizer returned or jumped back
FinExit(m) ==
  LET f == Top(m)
      m1 == [m EXCEPT !.gctx = f.nextcontext, !.tlc = f.saveToplevelContext,
                      !.top = f.savestack, !.expr = f.topExp]
  IN SetTop(Unprotect(m1, 1),
            [f EXCEPT !.s = f.next, !.pc = "fin_loop", !.calls = 0])

\* R_gc_internal that runs the finalizers after every collection
AfterCollect_Always(m) ==
  LET f == Top(m)
      m1 == [m EXCEPT !.susp = f.oldsusp]
  IN SetTop([m1 EXCEPT !.npass = @ + 1],
            [f EXCEPT !.nfin = @ + 1, !.pass = m.npass + 1, !.top_in = m.top,
                      !.expr_in = m.expr, !.tlc_in = m.tlc, !.s = m.fin,
                      !.last = R_NilValue, !.finalizer_run = FALSE,
                      !.pc = "fin_loop"])

\* R_gc_internal after RunGenCollect: interrupts are restored, and on the
\* first pass RunFinalizers is entered
AfterCollect(m) ==
  LET f == Top(m)
      m1 == END_SUSPEND_INTERRUPTS(m, f.oldsusp)
  IN IF f.first
     THEN SetTop([m1 EXCEPT !.npass = @ + 1],
                 [f EXCEPT !.first = FALSE, !.nfin = @ + 1,
                           !.pass = m.npass + 1, !.top_in = m.top,
                           !.expr_in = m.expr, !.tlc_in = m.tlc,
                           !.s = m.fin, !.last = R_NilValue,
                           !.finalizer_run = FALSE, !.pc = "fin_loop"])
     ELSE GcReturn(m1)

\* the generation of a node: 0 for a node in new space, 1 + its generation
\* bits for a marked node
generation(h, n) == IF NODE_IS_MARKED(h, n) THEN NODE_GENERATION(h, n) + 1 ELSE 0

\* history: the generation of every node when the collection starts
R_gc_internal(m) ==
  LET f == Top(m)
  IN CASE f.pc = "again" ->
            SetTop([m EXCEPT !.susp = TRUE, !.reg = NULL,
                             !.hist.gen_in = [n \in Node |-> generation(m.heap, n)],
                             !.heap = RunGenCollect(m.heap, Roots(m), m.fin,
                                                    f.size_needed)],
                   [f EXCEPT !.oldsusp = m.susp, !.ncollect = @ + 1,
                             !.pc = "end_suspend"])
       [] f.pc = "end_suspend" -> AfterCollect(m)
       [] f.pc = "fin_loop" -> RunFinalizers(m)
       [] f.pc = "lcons1" ->
            Push(SetTop([m EXCEPT !.heap.sx[f.res].type = "LANGSXP"],
                        [f EXCEPT !.pc = "lcons2"]),
                 Frame("cons", "entry", m.heap.sx[f.s].tag, f.res, ""))
       [] f.pc = "lcons2" ->
            LET m1 == [m EXCEPT !.heap.sx[f.res].type = "LANGSXP"]
            IN IF ~ CanProtect(m1) THEN Error(m1, "protect(): stack overflow")
               ELSE Invoke(Protect(m1, f.res))
       [] f.pc = "fin_exit" -> FinExit(m)

\* one step of the innermost call in progress
Step(m) ==
  LET fn == Top(m).fn
  IN CASE fn = "cons" -> cons(m)
       [] fn = "NewEnvironment" -> NewEnvironment(m)
       [] fn = "mkPROMISE" -> mkPROMISE(m)
       [] fn = "allocSExp" -> allocSExp(m)
       [] fn = "allocVector" -> allocVector(m)
       [] fn = "R_RegisterFinalizer" -> R_RegisterFinalizer(m)
       [] fn = "R_RegisterCFinalizer" -> R_RegisterCFinalizer(m)
       [] fn = "do_gc" -> do_gc(m)
       [] fn = "R_PreserveObject" -> R_PreserveObject(m)
       [] fn = "R_alloc" -> R_alloc(m)
       [] fn = "do_gctorture" -> do_gctorture(m)
       [] fn = "R_gc_internal" -> R_gc_internal(m)

\* the program runs on to the next point where the model looks at it: the
\* mutator's next operation, the end of a collection, a running finalizer
AtStop(m) ==
  \/ m.ctl = << >>
  \/ Top(m).fn = "R_gc_internal" /\ Top(m).pc \in {"end_suspend", "in_finalizer"}

RECURSIVE Run(_)
Run(m) == IF AtStop(m) THEN m ELSE Run(Step(m))


\* ------------------------------------------------------------------ state
VARIABLES heap, R_PPStack, R_PPStackTop, R_fin_registered, R_CurrentExpr,
          R_ToplevelContext, R_GlobalContext, R_interrupts_suspended,
          R_PreciousList, R_VStack, gc_inhibit_torture,
          ctl, reg, ovmax, err, abort, ops, log, regid, nreg, npass, hist,
          match

vars == <<heap, R_PPStack, R_PPStackTop, R_fin_registered, R_CurrentExpr,
          R_ToplevelContext, R_GlobalContext, R_interrupts_suspended,
          R_PreciousList, R_VStack, gc_inhibit_torture, ctl, reg, ovmax, err, abort, ops, log, regid, nreg, npass, hist, match>>

\* the state as the record the operations work on, and back
M ==
  [heap |-> heap, pp |-> R_PPStack, top |-> R_PPStackTop,
   fin |-> R_fin_registered, expr |-> R_CurrentExpr,
   tlc |-> R_ToplevelContext, gctx |-> R_GlobalContext,
   susp |-> R_interrupts_suspended, precious |-> R_PreciousList,
   vstack |-> R_VStack, inhibit |-> gc_inhibit_torture, ovmax |-> ovmax,
   ctl |-> ctl, reg |-> reg, err |-> err,
   abort |-> abort, ops |-> ops, log |-> log, regid |-> regid, nreg |-> nreg,
   npass |-> npass, hist |-> hist, match |-> match]

Becomes(m) ==
  /\ heap' = m.heap
  /\ R_PPStack' = m.pp
  /\ R_PPStackTop' = m.top
  /\ R_fin_registered' = m.fin
  /\ R_CurrentExpr' = m.expr
  /\ R_ToplevelContext' = m.tlc
  /\ R_GlobalContext' = m.gctx
  /\ R_interrupts_suspended' = m.susp
  /\ R_PreciousList' = m.precious
  /\ R_VStack' = m.vstack
  /\ gc_inhibit_torture' = m.inhibit
  /\ ctl' = m.ctl
  /\ reg' = m.reg
  /\ ovmax' = m.ovmax
  /\ err' = m.err
  /\ abort' = m.abort
  /\ ops' = m.ops
  /\ log' = m.log
  /\ regid' = m.regid
  /\ nreg' = m.nreg
  /\ npass' = m.npass
  /\ hist' = m.hist
  /\ match' = m.match

\* the state after InitMemory, at the top level, nothing protected, gc
\* torture off.
\* R_PreciousList is set up by code outside memory.c: the empty list, which
\* is what R_PreserveObject and RecursiveRelease take it to be.
\* history of a call that takes unprotected arguments: the function, its
\* arguments, the protect-stack top at the call, whether the call collected
NoCall == [fn |-> "", a |-> NULL, b |-> NULL, c |-> NULL, top |-> 0, gc |-> FALSE]

\* the argument lists of match.c: cells with the fields matchArgs reads and
\* writes, held apart from the node heap.  Symbols and argument values are
\* made by code outside memory.c and match.c; a symbol stands for its name.
ArgCells == (R_NilValue + 1) .. (R_NilValue + MaxArgCells)

SymbolNames == <<<<"a">>, <<"a", "b">>, <<"b">>, <<".", ".", ".">>>>

Symbols == {R_NilValue + MaxArgCells + i : i \in 1 .. Len(SymbolNames)}

PRINTNAME(s) == SymbolNames[s - R_NilValue - MaxArgCells]

R_DotsSymbol == R_NilValue + MaxArgCells + Len(SymbolNames)

R_MissingArg == R_DotsSymbol + 1

NoCell ==
  [type |-> "", car |-> NULL, cdr |-> NULL, tag |-> NULL, gp |-> 0,
   missing |-> 0]

NoMatch ==
  [cell |-> [c \in ArgCells |-> NoCell], free |-> R_NilValue + 1,
   formals |-> R_NilValue, supplied |-> R_NilValue, actuals |-> R_NilValue,
   dots |-> R_NilValue, list |-> R_NilValue, calls |-> 0, bound |-> {}]

InitWith(h, budget, mt) ==
  /\ match = mt
  /\ heap = h
  /\ R_PPStack = [i \in 0 .. (R_PPStackSize - 1) |-> NULL]
  /\ R_PPStackTop = 0
  /\ R_fin_registered = R_NilValue
  /\ R_CurrentExpr = NULL
  /\ R_ToplevelContext = 0
  /\ R_GlobalContext = 0
  /\ R_interrupts_suspended = FALSE
  /\ R_PreciousList = R_NilValue
  /\ R_VStack = NULL
  /\ gc_inhibit_torture = TRUE
  /\ ctl = << >>
  /\ reg = NULL
  /\ ovmax = NULL
  /\ err = ""
  /\ abort = FALSE
  /\ ops = budget
  /\ log = << >>
  /\ regid = [n \in Node |-> 0]
  /\ nreg = 0
  /\ npass = 0
  /\ hist = [do_gc |-> [n |-> 0, ops |-> 0],
             uptr |-> [n |-> 0, i |-> 0, top |-> 0, s |-> NULL, rd |-> 0,
                      wr |-> 0],
             gen_in |-> [n \in Node |-> 0],
             chain |-> << >>, ralloc |-> [n |-> 0, res |-> NULL],
             vmax |-> [n |-> 0, chain |-> << >>], dropped |-> {},
             precious |-> << >>, rel |-> [n |-> 0, object |-> NULL],
             err |-> [top |-> 0, fn |-> "",
                      pp |-> [i \in 0 .. (R_PPStackSize - 1) |-> NULL]],
             gc |-> [ncollect |-> 0, nfin |-> 0, finalizer_run |-> FALSE,
                     size_needed |-> 0, again_inuse |-> 0, again_vfree |-> 0,
                     R_NSize |-> 0],
             call |-> NoCall,
             fin |-> [pass |-> 0, nerr |-> 0, failed |-> {}, top_in |-> 0,
                      expr_in |-> NULL, tlc_in |-> 0, top_out |-> 0,
                      expr_out |-> NULL, tlc_out |-> 0, on_registry |-> {},
                      flagged |-> {}]]

InitOn(h, budget) == InitWith(h, budget, NoMatch)

InitState(budget) == InitOn(InitMemory, budget)

\* ------------------------------------------------------------ the mutator
\* The mutator is C code at the top level.  It holds the node its last
\* allocation returned in reg and passes on only live values: R_NilValue, reg,
\* and what it has on the protect stack.
Idle == ctl = << >> /\ ~ abort /\ ops > 0

Vals ==
  ({R_NilValue, reg} \cup {R_PPStack[i] : i \in 0 .. (R_PPStackTop - 1)})
    \ {NULL}

\* what a caller may pass where the callee does not protect its argument
ProtectedVals ==
  ({R_NilValue} \cup {R_PPStack[i] : i \in 0 .. (R_PPStackTop - 1)}) \ {NULL}

\* the values SETCAR is used on: R_NilValue and nodes with a CAR field
ListVals ==
  {v \in Vals : v = R_NilValue
                \/ heap.sx[v].type \in {"LISTSXP", "LANGSXP", "ENVSXP", "CLOSXP"}}

Begin == [M EXCEPT !.ops = @ - 1, !.err = "", !.hist.call = NoCall]

Call(f) == Becomes(Run(Push(Begin, f)))

\* a call with the history of its arguments
NotedCall(m, f) ==
  Push([m EXCEPT !.hist.call = [fn |-> f.fn, a |-> f.a, b |-> f.b, c |-> f.c,
                                top |-> m.top, gc |-> FALSE]], f)

NotedStop(m) == [m EXCEPT !.hist.call.gc = (m.ctl # << >>)]

CallUnprotected(f) == Becomes(NotedStop(Run(NotedCall(Begin, f))))

\* cons(a, b) on values the caller need not have protected
MutConsArgs(a, b) ==
  /\ Idle
  /\ CallUnprotected(Frame("cons", "entry", a, b, ""))

MutNewEnvironment(namelist, valuelist, rho) ==
  /\ Idle
  /\ CallUnprotected([Frame("NewEnvironment", "entry", namelist, valuelist, "")
                       EXCEPT !.c = rho])

MutMkPROMISE(expr, rho) ==
  /\ Idle
  /\ CallUnprotected(Frame("mkPROMISE", "entry", expr, rho, ""))

MutAllocSExp(t) ==
  /\ Idle
  /\ Call(Frame("allocSExp", "entry", NULL, NULL, t))

MutCons(a, b) ==
  /\ Idle
  /\ Call(Frame("cons", "entry", a, b, ""))

\* protect(s), the whole function
protect(m, s) ==
  IF CanProtect(m) THEN Protect(m, s)
  ELSE Error(m, "protect(): stack overflow")

MutProtect ==
  /\ Idle
  /\ reg # NULL
  /\ Becomes(protect(Begin, reg))

\* ---------------------------------------------------------------- match.c
CAR(m, x) == m.match.cell[x].car
CDR(m, x) == m.match.cell[x].cdr
TAG(m, x) == m.match.cell[x].tag
ARGUSED(m, x) == m.match.cell[x].gp
SET_ARGUSED(m, x, v) == [m EXCEPT !.match.cell[x].gp = v]
SET_MISSING(m, x, v) == [m EXCEPT !.match.cell[x].missing = v]
SET_TYPEOF(m, x, v) == [m EXCEPT !.match.cell[x].type = v]
SetArgCar(m, x, v) == [m EXCEPT !.match.cell[x].car = v]
SetArgTag(m, x, v) == [m EXCEPT !.match.cell[x].tag = v]

\* CONS(car, cdr) in the cells of the argument lists: the new cell is the
\* one match.free pointed at
CONS(m, car, cdr) ==
  [m EXCEPT !.match.cell[m.match.free] =
              [type |-> "LISTSXP", car |-> car, cdr |-> cdr,
               tag |-> R_NilValue, gp |-> 0, missing |-> 0],
            !.match.free = @ + 1]

\* psmatch(f, t, exact) on the characters of two names
RECURSIVE psmatchLoop(_, _)
psmatchLoop(f, t) ==
  IF f = << >> /\ t = << >> THEN TRUE
  ELSE IF t = << >> THEN TRUE
  ELSE IF f = << >> THEN FALSE
  ELSE IF Head(t) # Head(f) THEN FALSE
  ELSE psmatchLoop(Tail(f), Tail(t))

psmatch(f, t, exact) == IF exact THEN f = t ELSE psmatchLoop(f, t)

\* pmatch(formal, tag, exact) on two symbols
pmatch(formal, tag, exact) == psmatch(PRINTNAME(formal), PRINTNAME(tag), exact)

\* allocList(n); the list is left in match.list
RECURSIVE allocListLoop(_, _, _, _)
allocListLoop(m, i, n, result) ==
  IF i < n THEN allocListLoop(CONS(m, R_NilValue, result), i + 1, n, m.match.free)
  ELSE [m EXCEPT !.match.list = result]

allocList(m, n) == allocListLoop(m, 0, n, R_NilValue)

\* the first loop of matchArgs: an actual for every formal
RECURSIVE NewActuals(_, _)
NewActuals(m, f) ==
  IF f = R_NilValue THEN m
  ELSE NewActuals(
         SET_ARGUSED(
           SET_MISSING([CONS(m, R_MissingArg, m.match.actuals)
                          EXCEPT !.match.actuals = m.match.free],
                       m.match.free, 1),
           f, 0),
         CDR(m, f))

\* the second loop: no supplied argument is used yet
RECURSIVE ClearUsed(_, _)
ClearUsed(m, b) ==
  IF b = R_NilValue THEN m ELSE ClearUsed(SET_ARGUSED(m, b, 0), CDR(m, b))

\* history: the supplied argument b is bound to the actual a, or to the
\* actual of ...
NoteBound(m, a, b) == [m EXCEPT !.match.bound = @ \cup {<<a, b>>}]

\* the actual a takes the value of the supplied argument b
BindActual(m, a, b) ==
  IF CAR(m, b) # R_MissingArg
  THEN SET_MISSING(SetArgCar(NoteBound(m, a, b), a, CAR(m, b)), a, 0)
  ELSE SetArgCar(NoteBound(m, a, b), a, CAR(m, b))

\* first pass: exact matches by tag
RECURSIVE FirstPassArgs(_, _, _, _)
FirstPassArgs(m, f, a, b) ==
  IF b = R_NilValue \/ m.err # "" THEN m
  ELSE IF TAG(m, b) # R_NilValue /\ pmatch(TAG(m, f), TAG(m, b), TRUE)
  THEN IF ARGUSED(m, f) = 2
       THEN Error(m, "formal argument matched by multiple actual arguments")
       ELSE IF ARGUSED(m, b) = 2
       THEN Error(m, "argument matches multiple formal arguments")
       ELSE FirstPassArgs(SET_ARGUSED(SET_ARGUSED(BindActual(m, a, b), b, 2), f, 2),
                          f, a, CDR(m, b))
  ELSE FirstPassArgs(m, f, a, CDR(m, b))

RECURSIVE FirstPass(_, _, _)
FirstPass(m, f, a) ==
  IF f = R_NilValue \/ m.err # "" THEN m
  ELSE FirstPass(IF TAG(m, f) # R_DotsSymbol
                 THEN FirstPassArgs(m, f, a, m.match.supplied) ELSE m,
                 CDR(m, f), CDR(m, a))

\* second pass: partial matches based on tags
RECURSIVE SecondPassArgs(_, _, _, _, _)
SecondPassArgs(m, f, a, b, seendots) ==
  IF b = R_NilValue \/ m.err # "" THEN m
  ELSE IF ARGUSED(m, b) # 2 /\ TAG(m, b) # R_NilValue
          /\ pmatch(TAG(m, f), TAG(m, b), seendots)
  THEN IF ARGUSED(m, b) # 0
       THEN Error(m, "argument matches multiple formal arguments")
       ELSE IF ARGUSED(m, f) = 1
       THEN Error(m, "formal argument matched by multiple actual arguments")
       ELSE SecondPassArgs(SET_ARGUSED(SET_ARGUSED(BindActual(m, a, b), b, 1), f, 1),
                           f, a, CDR(m, b), seendots)
  ELSE SecondPassArgs(m, f, a, CDR(m, b), seendots)

\* the location of the first ... is left in match.dots
RECURSIVE SecondPass(_, _, _, _, _)
SecondPass(m, f, a, dots, seendots) ==
  IF m.err # "" THEN m
  ELSE IF f = R_NilValue THEN [m EXCEPT !.match.dots = dots]
  ELSE IF ARGUSED(m, f) = 0
  THEN IF TAG(m, f) = R_DotsSymbol /\ ~ seendots
       THEN SecondPass(m, CDR(m, f), CDR(m, a), a, TRUE)
       ELSE SecondPass(SecondPassArgs(m, f, a, m.match.supplied, seendots),
                       CDR(m, f), CDR(m, a), dots, seendots)
  ELSE SecondPass(m, CDR(m, f), CDR(m, a), dots, seendots)

\* third pass: matches based on order
RECURSIVE ThirdPass(_, _, _, _, _)

ThirdPass(m, f, a, b, seendots) ==
  IF m.err # "" \/ f = R_NilValue \/ b = R_NilValue \/ seendots THEN m
  ELSE IF TAG(m, f) = R_DotsSymbol
  THEN ThirdPass(m, CDR(m, f), CDR(m, a), b, TRUE)
  ELSE IF CAR(m, a) # R_MissingArg
  THEN ThirdPass(m, CDR(m, f), CDR(m, a), b, seendots)
  ELSE IF ARGUSED(m, b) # 0 \/ TAG(m, b) # R_NilValue
  THEN ThirdPass(m, f, a, CDR(m, b), seendots)
  ELSE ThirdPass(SET_ARGUSED(BindActual(m, a, b), b, 1),
                 CDR(m, f), CDR(m, a), CDR(m, b), seendots)

\* the number of supplied arguments from a on that are not used
RECURSIVE CountUnused(_, _)
CountUnused(m, a) ==
  IF a = R_NilValue THEN 0
  ELSE (IF ARGUSED(m, a) = 0 THEN 1 ELSE 0) + CountUnused(m, CDR(m, a))

\* the cells of the ... list take the unused supplied arguments
RECURSIVE FillDots(_, _, _)
FillDots(m, f, b) ==
  IF b = R_NilValue THEN m
  ELSE IF ARGUSED(m, b) = 0
  THEN FillDots(SetArgTag(SetArgCar(NoteBound(m, m.match.dots, b), f, CAR(m, b)),
                          f, TAG(m, b)),
                CDR(m, f), CDR(m, b))
  ELSE FillDots(m, f, CDR(m, b))

\* a = allocList(i) and what follows it
DotsList(m, dots) ==
  SetArgCar(FillDots(SET_TYPEOF(m, m.match.list, "DOTSXP"), m.match.list,
                     m.match.supplied),
            dots, m.match.list)

\* gobble up all unused actuals
GobbleDots(m, dots) ==
  IF CountUnused(m, m.match.supplied) > 0
  THEN DotsList(allocList(SET_MISSING(m, dots, 0),
                          CountUnused(m, m.match.supplied)),
                dots)
  ELSE SET_MISSING(m, dots, 0)

\* check that all arguments are used
RECURSIVE CheckUsed(_, _)
CheckUsed(m, b) ==
  IF b = R_NilValue THEN m
  ELSE IF ARGUSED(m, b) = 0 /\ CAR(m, b) # R_MissingArg
  THEN Error(m, "unused argument(s)")
  ELSE CheckUsed(m, CDR(m, b))

LastPass(m) ==
  IF m.err # "" THEN m
  ELSE IF m.match.dots # R_NilValue THEN GobbleDots(m, m.match.dots)
  ELSE CheckUsed(m, m.match.supplied)

\* UNPROTECT(1); return(actuals)
MatchReturn(m) ==
  IF m.err # "" THEN m ELSE [Unprotect(m, 1) EXCEPT !.match.calls = @ + 1]

ThirdPassFrom(m, formals, supplied) ==
  ThirdPass(m, formals, m.match.actuals, supplied, FALSE)

ProtectActuals(m) == protect(m, m.match.actuals)

\* the passes, after PROTECT(actuals)
MatchPasses(m, formals, supplied) ==
  IF m.err # "" THEN m
  ELSE MatchReturn(
         LastPass(
           ThirdPassFrom(
             SecondPass(FirstPass(m, formals, m.match.actuals),
                        formals, m.match.actuals, R_NilValue, FALSE),
             formals, supplied)))

\* matchArgs(formals, supplied)
matchArgs(m, formals, supplied) ==
  MatchPasses(
    ProtectActuals(
      ClearUsed(NewActuals([m EXCEPT !.match.actuals = R_NilValue,
                                     !.match.bound = {}], formals),
                supplied)),
    formals, supplied)

\* whether the cells are there for another call
CellsLeft(mt, n) == mt.free + n <= R_NilValue + MaxArgCells + 1

RECURSIVE ListLength(_, _)
ListLength(mt, x) ==
  IF x = R_NilValue THEN 0 ELSE 1 + ListLength(mt, mt.cell[x].cdr)

MutMatchArgs ==
  /\ Idle
  /\ CellsLeft(match, ListLength(match, match.formals)
                         + ListLength(match, match.supplied))
  /\ Becomes(matchArgs(Begin, match.formals, match.supplied))

MutUnprotect(l) ==
  /\ Idle
  /\ Becomes(Unprotect(Begin, l))

\* protect(s) for any value the program holds
MutProtectVal(s) ==
  /\ Idle
  /\ Becomes(protect(Begin, s))

\* what the word behind the stack's block may hold
JunkVals == Vals \cup {NULL}

MutUnprotectPtr(s, junk) ==
  /\ Idle
  /\ Becomes(unprotect_ptr(Begin, s, junk))

MutPreserve(s) ==
  /\ Idle
  /\ Call(Frame("R_PreserveObject", "entry", s, NULL, ""))

\* the objects the program may ask to release: what it holds, and what it
\* has preserved
ReleaseVals == Vals \cup SeqToSet(PreciousCars(heap, R_PreciousList))

MutRelease(s) ==
  /\ Idle
  /\ Becomes(R_ReleaseObject(Begin, s))

MutAllocVector(t, length) ==
  /\ Idle
  /\ Call(Frame("allocVector", "entry", length, NULL, t))

MutGcTorture(i) ==
  /\ Idle
  /\ Call(Frame("do_gctorture", "entry", NULL, NULL, i))

MutRAlloc(nelem, eltsize) ==
  /\ Idle
  /\ Call(Frame("R_alloc", "entry", nelem, eltsize, ""))

MutVmaxget ==
  /\ Idle
  /\ Becomes(vmaxget(Begin))

\* vmaxset with the value the program's last vmaxget returned
MutVmaxset ==
  /\ Idle
  /\ hist.vmax.n > 0
  /\ Becomes(vmaxset(Begin, ovmax))

\* SETCAR(x, y)
SETCAR(m, x, y) ==
  IF x = NULL \/ x = R_NilValue THEN Error(m, "bad value")
  ELSE [m EXCEPT !.heap = [CHECK_OLD_TO_NEW(m.heap, x, y) EXCEPT !.sx[x].car = y]]

MutSetCar(x, y) ==
  /\ Idle
  /\ Becomes(SETCAR(Begin, x, y))

\* SETCDR(x, y) with its test of x
MutSetCdr(x, y) ==
  /\ Idle
  /\ Becomes(IF x = NULL \/ x = R_NilValue THEN Error(Begin, "bad value")
             ELSE [Begin EXCEPT !.heap = SETCDR(Begin.heap, x, y)])

MutSetTag(x, v) ==
  /\ Idle
  /\ Becomes([Begin EXCEPT !.heap = SET_TAG(Begin.heap, x, v)])

MutSetAttrib(x, v) ==
  /\ Idle
  /\ Becomes([Begin EXCEPT !.heap = SET_ATTRIB(Begin.heap, x, v)])

\* the heap size adjustment at the end of a full collection, on its own
MutAdjustHeapSize(size_needed) ==
  /\ Idle
  /\ Becomes([Begin EXCEPT !.heap = AdjustHeapSize(Begin.heap, size_needed)])

\* the host or a C routine sets a heap limit
MutSetMaxNSize(size) ==
  /\ Idle
  /\ Becomes([Begin EXCEPT !.heap = R_SetMaxNSize(Begin.heap, size)])

MutSetMaxVSize(size) ==
  /\ Idle
  /\ Becomes([Begin EXCEPT !.heap = R_SetMaxVSize(Begin.heap, size)])

MutRegisterFinalizer(s, fun) ==
  /\ Idle
  /\ Call(Frame("R_RegisterFinalizer", "entry", s, fun, ""))

MutRegisterCFinalizer(s) ==
  /\ Idle
  /\ Call(Frame("R_RegisterCFinalizer", "entry", s, NULL, ""))

\* R_gc()
MutGc ==
  /\ Idle
  /\ Call(GcFrame(0))

MutDoGc ==
  /\ Idle
  /\ Call(Frame("do_gc", "entry", NULL, NULL, ""))

\* ------------------------------------------- inside R_gc_internal
InGc(pc) ==
  /\ ~ abort
  /\ ctl # << >>
  /\ ctl[Len(ctl)].fn = "R_gc_internal"
  /\ ctl[Len(ctl)].pc = pc

\* the collection is over: interrupts are restored and R_gc_internal goes on
GcProceed ==
  /\ InGc("end_suspend")
  /\ Becomes(Run(Step(M)))

\* what a running finalizer may have left in R_CurrentExpr
FinExprs ==
  IF ctl # << >> /\ ctl[Len(ctl)].s \in Node
  THEN {R_CurrentExpr, heap.sx[ctl[Len(ctl)].s].car} ELSE {}

\* the finalizer returns
FinalizerReturn(e) ==
  /\ InGc("in_finalizer")
  /\ heap.sx[heap.sx[ctl[Len(ctl)].s].tag].type
       \in {"CHARSXP", "CLOSXP", "BUILTINSXP", "SPECIALSXP"}
  /\ LET m0 == [M EXCEPT !.expr = e]
         m1 == IF heap.sx[heap.sx[ctl[Len(ctl)].s].tag].type = "CHARSXP"
               THEN m0 ELSE Unprotect(m0, 1)
         m2 == Unprotect(m1, 1)
     IN Becomes(Run(SetTop(m2, [Top(m2) EXCEPT !.pc = "fin_exit"])))

\* where the jump out of a failed finalizer may leave R_PPStackTop
JumpTops == {0, R_PPStackTop}

\* the finalizer signals an error
FinalizerError(e, t) ==
  /\ InGc("in_finalizer")
  /\ Becomes(Run(Error([M EXCEPT !.expr = e, !.top = t], "error in finalizer")))

\* the finalizer calls R_gc()
FinalizerGc ==
  /\ InGc("in_finalizer")
  /\ ctl[Len(ctl)].calls < 1
  /\ Cardinality({i \in 1 .. Len(ctl) : ctl[i].fn = "R_gc_internal"}) < MaxNest
  /\ Becomes(Run(Push(SetTop(M, [Top(M) EXCEPT !.calls = @ + 1]), GcFrame(0))))

\* the finalizer sets a heap limit
FinalizerSetMaxNSize(size) ==
  /\ InGc("in_finalizer")
  /\ Becomes([M EXCEPT !.heap = R_SetMaxNSize(M.heap, size)])

FinalizerSetMaxVSize(size) ==
  /\ InGc("in_finalizer")
  /\ Becomes([M EXCEPT !.heap = R_SetMaxVSize(M.heap, size)])

Types == {"ENVSXP", "CLOSXP"}

\* the counts the program passes to unprotect
UnprotectCounts == {1, 2}

\* a program that builds and updates list structure
Init == InitState(MaxOps)

Next ==
  \/ \E a \in Vals : MutCons(a, R_NilValue)
  \/ MutProtect
  \/ \E l \in UnprotectCounts : MutUnprotect(l)
  \/ \E x \in ListVals, y \in Vals : MutSetCar(x, y)
  \/ MutGc
  \/ MutDoGc
  \/ GcProceed

Spec == Init /\ [][Next]_vars

\* a program that protects values and unprotects them by pointer
MaxStackOps == 6

StackInit == InitState(MaxStackOps)

StackNext ==
  \/ \E a \in Vals : MutCons(a, R_NilValue)
  \/ \E s \in Vals : MutProtectVal(s)
  \/ \E s \in Vals, junk \in JunkVals : MutUnprotectPtr(s, junk)

StackSpec == StackInit /\ [][StackNext]_vars

\* a program that preserves objects and releases them
MaxPreserveOps == 6

PreserveInit == InitState(MaxPreserveOps)

PreserveNext ==
  \/ \E a \in Vals : MutCons(a, R_NilValue)
  \/ \E s \in Vals : MutPreserve(s)
  \/ \E s \in ReleaseVals : MutRelease(s)
  \/ MutGc
  \/ GcProceed

PreserveSpec == PreserveInit /\ [][PreserveNext]_vars

\* a program that takes buffers from R_alloc within vmaxget/vmaxset scopes
MaxVStackOps == 7

\* the element counts it asks for, in bytes: none, a few, and a count that
\* does not fit unsigned int
RAllocCounts == {0, 8, 2 ^ UIntBits}

VStackInit == InitState(MaxVStackOps)

VStackNext ==
  \/ \E nelem \in RAllocCounts : MutRAlloc(nelem, 1)
  \/ MutVmaxget
  \/ MutVmaxset
  \/ MutGc
  \/ MutDoGc
  \/ GcProceed

VStackSpec == VStackInit /\ [][VStackNext]_vars

\* a program that allocates until the heap is exhausted, with and without
\* gc torture
MaxAllocOps == 6

\* the lengths of the integer vectors it asks for: none, and most of the
\* vector heap
AllocLengths == {0, 10}

\* what it conses onto: the node it has just got, or nothing
ConsVals == {reg, R_NilValue} \ {NULL}

AllocInit == InitState(MaxAllocOps)

AllocNext ==
  \/ \E a \in ConsVals : MutCons(a, R_NilValue)
  \/ MutAllocSExp("ENVSXP")
  \/ \E length \in AllocLengths : MutAllocVector("INTSXP", length)
  \/ MutProtect
  \/ MutGcTorture("TRUE")
  \/ GcProceed

AllocSpec == AllocInit /\ [][AllocNext]_vars

\* a program that asks allocVector for vectors of any length
MaxVecOps == 5

\* the lengths it asks for: negative, a few cells, and one whose size is at
\* the overflow bound
VecLengths == {-1, 3, 2 * MaxVecCells}

VecInit == InitState(MaxVecOps)

VecNext ==
  \/ \E length \in VecLengths : MutAllocVector("INTSXP", length)
  \/ MutProtect
  \/ \E s \in Vals : MutRegisterCFinalizer(s)
  \/ \E i \in {"TRUE", "FALSE"} : MutGcTorture(i)
  \/ GcProceed
  \/ \E e \in FinExprs : FinalizerReturn(e)

VecSpec == VecInit /\ [][VecNext]_vars

\* a program that conses and calls the public setters on what it holds,
\* R_NilValue included
MaxSetOps == 4

SetterInit == InitState(MaxSetOps)

SetterNext ==
  \/ \E a \in ConsVals : MutCons(a, R_NilValue)
  \/ MutProtect
  \/ \E x \in Vals, y \in Vals : MutSetCar(x, y)
  \/ \E x \in Vals, y \in Vals : MutSetCdr(x, y)
  \/ \E x \in Vals, v \in Vals : MutSetTag(x, v)
  \/ \E x \in Vals, v \in Vals : MutSetAttrib(x, v)
  \/ MutGc
  \/ GcProceed

SetterSpec == SetterInit /\ [][SetterNext]_vars

\* a program that builds cyclic lists and fills the vector heap, so that
\* collections have to restart at a higher level
MaxCollectOps == 7

CollectInit == InitState(MaxCollectOps)

CollectNext ==
  \/ \E a \in ConsVals : MutCons(a, R_NilValue)
  \/ \E x \in ListVals : MutSetCar(x, x)
  \/ MutProtect
  \/ MutAllocVector("INTSXP", 10)
  \/ MutGc
  \/ GcProceed

CollectSpec == CollectInit /\ [][CollectNext]_vars

\* a program that works with vectors of the large class, on a vector heap
\* that holds two or three of them
MaxLargeOps == 6
LargeVSize == 52

\* 17 and 23 cells of ints, 18 cells of chars
LargeLengths == {<<"INTSXP", 34>>, <<"INTSXP", 46>>, <<"CHARSXP", 140>>}

LargeInit ==
  InitOn([InitMemory EXCEPT !.R_VSize = LargeVSize, !.orig_R_VSize = LargeVSize,
                            !.R_MaxVSize = LargeVSize],
         MaxLargeOps)

LargeNext ==
  \/ \E v \in LargeLengths : MutAllocVector(v[1], v[2])
  \/ MutProtect
  \/ MutUnprotect(1)
  \/ MutGc
  \/ GcProceed

LargeSpec == LargeInit /\ [][LargeNext]_vars

\* AdjustHeapSize on the counters a full collection can leave, at the
\* default heap sizes: R_NSize of 350000 nodes, fresh or grown once
MaxSizeOps == 2
DefaultNSize == 350000

SizeNSizes == {DefaultNSize, DefaultNSize + 57500}

\* the limits on R_NSize: none, R_NSize itself, and around the room a growth
\* step of n nodes needs
SizeMaxNSizes(n) ==
  {IntMax, n, n + R_NGrowIncrMin, n + R_NGrowIncrMin + Trunc(R_NGrowIncrFracPct * n, 100),
   n + R_NGrowIncrMin + Trunc(R_NGrowIncrFracPct * n, 100) - 1}

\* nodes in use: few, and around the occupancy at which R_NSize grows
SizeInUse(n) ==
  {1000, Trunc(R_NShrinkFracPct * n, 100), Trunc(R_NGrowFracPct * n, 100) - 70000,
   Trunc(R_NGrowFracPct * n, 100) - 70000 + 1, n}

\* the default vector heap, in units of VECREC
DefaultVSize == 786432

\* the limits on R_VSize: none, R_VSize itself, and 100000 units above it
SizeMaxVSizes == {IntMax, DefaultVSize, DefaultVSize + 100000}

\* vector space in use: little, around the occupancy at which R_VSize
\* grows, and so much that VNeeded is above R_VSize
SizeVInUse ==
  {1000,
   Trunc(R_VGrowFracPct * DefaultVSize, 100) - Trunc(DefaultVSize * R_MinFreeFracPct, 100),
   Trunc(R_VGrowFracPct * DefaultVSize, 100) - Trunc(DefaultVSize * R_MinFreeFracPct, 100) + 1,
   700000}

SizeHeaps ==
  {[InitMemory EXCEPT !.R_NSize = n, !.orig_R_NSize = DefaultNSize,
                      !.R_MaxNSize = mx, !.R_NodesInUse = u,
                      !.R_VSize = DefaultVSize, !.orig_R_VSize = DefaultVSize,
                      !.R_MaxVSize = vmx, !.R_SmallVallocSize = vu]
     : n \in SizeNSizes,
       mx \in UNION {SizeMaxNSizes(k) : k \in SizeNSizes},
       u \in UNION {SizeInUse(k) : k \in SizeNSizes},
       vmx \in SizeMaxVSizes,
       vu \in SizeVInUse}

SizeInit ==
  \E h \in {g \in SizeHeaps : g.R_MaxNSize >= g.R_NSize
                               /\ g.R_NodesInUse <= g.R_NSize} :
    InitOn(h, MaxSizeOps)

SizeNext == \E size_needed \in {0, 6} : MutAdjustHeapSize(size_needed)

SizeSpec == SizeInit /\ [][SizeNext]_vars

\* the program of CollectSpec on a vector heap that has grown four times
\* from its default size and has no limit
GrownVSize == DefaultVSize + 4 * R_VGrowIncrMin

GrownInit ==
  InitOn([InitMemory EXCEPT !.R_VSize = GrownVSize,
                            !.orig_R_VSize = DefaultVSize,
                            !.R_MaxVSize = IntMax],
         MaxCollectOps)

GrownSpec == GrownInit /\ [][CollectNext]_vars

\* a program that moves the heap limits, also from its finalizers, on a
\* vector heap that has grown once from its default size
MaxLimitOps == 5
LimitVSize == DefaultVSize + R_VGrowIncrMin

\* limits on the vector heap in bytes: R_VSize as it starts, the default
\* size, one VECREC less, and no limit
LimitVBytes ==
  {vsfac * LimitVSize, vsfac * DefaultVSize, vsfac * DefaultVSize - vsfac, IntMax}

\* limits on the node heap: R_NSize, and one node less and more
LimitNodes == {InitNSize - 1, InitNSize, InitNSize + 1}

\* a large vector malloc provides, and one it has no memory for
LimitLengths == {<<"INTSXP", 34>>, <<"INTSXP", 2 * MaxVecCells>>}

LimitInit ==
  InitOn([InitMemory EXCEPT !.R_VSize = LimitVSize,
                            !.orig_R_VSize = DefaultVSize,
                            !.R_MaxVSize = IntMax],
         MaxLimitOps)

LimitNext ==
  \/ MutAllocSExp("ENVSXP")
  \/ \E s \in Vals : MutRegisterCFinalizer(s)
  \/ MutGcTorture("TRUE")
  \/ \E v \in LimitLengths : MutAllocVector(v[1], v[2])
  \/ MutGc
  \/ GcProceed
  \/ \E size \in LimitNodes : MutSetMaxNSize(size)
  \/ \E size \in LimitVBytes : MutSetMaxVSize(size)
  \/ \E size \in LimitNodes : FinalizerSetMaxNSize(size)
  \/ \E size \in LimitVBytes : FinalizerSetMaxVSize(size)
  \/ \E e \in FinExprs : FinalizerReturn(e)

LimitSpec == LimitInit /\ [][LimitNext]_vars

\* a program that builds lists, environments and promises from values it
\* has not protected
MaxArgOps == 5

\* the lists NewEnvironment is given: R_NilValue and cons cells
Lists == {v \in Vals : v = R_NilValue \/ heap.sx[v].type = "LISTSXP"}

ArgInit == InitState(MaxArgOps)

ArgNext ==
  \/ \E a \in Vals, b \in Lists : MutConsArgs(a, b)
  \/ \E n \in Lists, v \in Lists, rho \in {reg, R_NilValue} \ {NULL} :
       MutNewEnvironment(n, v, rho)
  \/ \E e \in Vals, rho \in {reg, R_NilValue} \ {NULL} : MutMkPROMISE(e, rho)
  \/ MutProtect
  \/ MutGcTorture("TRUE")
  \/ GcProceed

ArgSpec == ArgInit /\ [][ArgNext]_vars

\* matchArgs on formals and supplied arguments of up to two cells each, called
\* again on the same lists as a method dispatch does
MaxMatchOps == 2
MaxArgs == 2

FormalTags == {s \in Symbols : PRINTNAME(s) # <<"a">>}
SuppliedTags == {R_NilValue} \cup {s \in Symbols : s # R_DotsSymbol}
SuppliedValues == {R_MissingArg, R_MissingArg + 1}

\* a list in the cells from first on: tags[i] and cars[i] in its i-th cell
ListCells(first, tags, cars) ==
  [c \in first .. (first + Len(tags) - 1) |->
     [type |-> "LISTSXP", car |-> cars[c - first + 1],
      cdr |-> IF c = first + Len(tags) - 1 THEN R_NilValue ELSE c + 1,
      tag |-> tags[c - first + 1], gp |-> 0, missing |-> 0]]

ListHead(first, tags) == IF tags = << >> THEN R_NilValue ELSE first

\* the cells with the formals ftags and the supplied arguments stags, scars
ArgLists(ftags, stags, scars) ==
  [NoMatch EXCEPT
     !.cell = [c \in ArgCells |->
                 IF c < R_NilValue + 1 + Len(ftags)
                 THEN ListCells(R_NilValue + 1, ftags,
                                [i \in 1 .. Len(ftags) |-> R_MissingArg])[c]
                 ELSE IF c < R_NilValue + 1 + Len(ftags) + Len(stags)
                 THEN ListCells(R_NilValue + 1 + Len(ftags), stags, scars)[c]
                 ELSE NoCell],
     !.free = R_NilValue + 1 + Len(ftags) + Len(stags),
     !.formals = ListHead(R_NilValue + 1, ftags),
     !.supplied = ListHead(R_NilValue + 1 + Len(ftags), stags)]

SeqsUpTo(S, n) == UNION {[1 .. k -> S] : k \in 0 .. n}

MatchInit ==
  \E ftags \in SeqsUpTo(FormalTags, MaxArgs),
     stags \in SeqsUpTo(SuppliedTags, MaxArgs) :
    \E scars \in [1 .. Len(stags) -> SuppliedValues] :
      InitWith(InitMemory, MaxMatchOps, ArgLists(ftags, stags, scars))

MatchNext == MutMatchArgs

MatchSpec == MatchInit /\ [][MatchNext]_vars

\* a program that keeps lists and vectors over several collections and
\* stores young nodes in old ones
MaxCountOps == 7

CountInit == InitState(MaxCountOps)

CountNext ==
  \/ MutCons(R_NilValue, R_NilValue)
  \/ MutAllocVector("INTSXP", 1)
  \/ MutProtect
  \/ \E x \in ListVals \cap ProtectedVals : reg # NULL /\ MutSetCar(x, reg)
  \/ MutGc
  \/ GcProceed

CountSpec == CountInit /\ [][CountNext]_vars

\* a program that registers finalizers on the objects it allocates
FinInit == InitState(MaxFinOps)

FinNext ==
  \/ \E t \in Types : MutAllocSExp(t)
  \/ MutProtect
  \/ \E s \in Vals, fun \in ProtectedVals : MutRegisterFinalizer(s, fun)
  \/ \E s \in Vals : MutRegisterCFinalizer(s)
  \/ MutGc
  \/ MutDoGc
  \/ GcProceed
  \/ \E e \in FinExprs : FinalizerReturn(e)
  \/ \E e \in FinExprs, t \in JumpTops : FinalizerError(e, t)
  \/ FinalizerGc

FinSpec == FinInit /\ [][FinNext]_vars


\* ------------------------------------------------------------ properties
RECURSIVE ReachFrom(_, _)
ReachFrom(h, S) ==
  LET T == (S \cup UNION {SeqToSet(Children(h, n)) : n \in S}) \cap Node
  IN IF T = S THEN S ELSE ReachFrom(h, T)

\* the roots RunGenCollect forwards before it looks at the registry
MarkRoots == SeqToSet(Roots(M)) \cap Node

\* the roots of a collection: those, and the registry
RootSet == MarkRoots \cup ({R_fin_registered} \cap Node)

Reachable == ReachFrom(heap, RootSet)

Registry == SeqToSet(FinList(heap, R_fin_registered))

OldNodes(h) ==
  UNION {SeqToSet(ListOf(h, OldPeg(c, g))) \cup SeqToSet(ListOf(h, OldToNewPeg(c, g)))
         : c \in Classes, g \in Gens}

NewNodes(h) == UNION {SeqToSet(ListOf(h, NewPeg(c))) : c \in Classes}

\* the nodes the allocator will hand out: the New list from Free on
FreeNodes(h) ==
  UNION {SeqToSet(ListFrom(h, h.gh[c].Free, NewPeg(c))) : c \in Classes}

\* how often the finalizer of registration id has been called
Calls(id) == Cardinality({i \in 1 .. Len(log) : log[i].id = id})

GcFrames == {k \in 1 .. Len(ctl) : ctl[k].fn = "R_gc_internal"}

C2_AtMostOnce ==
  /\ \A id \in 1 .. nreg : Calls(id) <= 1
  /\ \A i \in 1 .. Len(log) : ~ log[i].onreg

DoGcReturned == ctl = << >> /\ hist.do_gc.n > 0 /\ hist.do_gc.ops = ops

\* do_gc is in progress
InDoGc == ctl # << >> /\ ctl[1].fn = "do_gc"

\* C4: when gc() returns, the finalizer of every registration whose object
\* only the registry reached has been called exactly once; a registration
\* is either still on the registry with its object reachable from a root or
\* its finalizer has been called, and no finalizer is ever called again.
C4_ExactlyOnce ==
  /\ (InDoGc \/ DoGcReturned) => \A id \in 1 .. nreg : Calls(id) <= 1
  /\ DoGcReturned =>
       \A id \in 1 .. nreg :
         \/ Calls(id) = 1
         \/ \E s \in Registry :
              /\ regid[s] = id
              /\ heap.sx[s].car \in ReachFrom(heap, MarkRoots)

\* C5: when a collection has finished, every registry entry whose object the
\* main marking pass found unmarked has its flag set and its object has not
\* been reclaimed (it is marked and on an Old list); an entry whose object was
\* marked has its flag set only if it was set before.  In a full collection
\* the objects found unmarked are those no root reaches.
C5_FlagAndKeep ==
  InGc("end_suspend") =>
    /\ \A s \in heap.fin_unmarked :
         /\ heap.sx[s].gp # 0
         /\ NODE_IS_MARKED(heap, heap.sx[s].car)
         /\ heap.sx[s].car \in OldNodes(heap) \ NewNodes(heap)
         /\ InHeap(heap, heap.sx[s].car)
    /\ \A s \in Registry :
         heap.sx[s].gp # 0 => s \in heap.fin_unmarked \cup heap.fin_flagged
    /\ heap.gens_collected = NUM_OLD_GENERATIONS =>
         heap.fin_unmarked =
           {s \in Registry : heap.sx[s].car \notin ReachFrom(heap, MarkRoots)}

\* a collection has just flagged one entry and left another, whose object a
\* root reaches, unflagged
C5_Witness ==
  /\ InGc("end_suspend")
  /\ \E s \in heap.fin_unmarked \ heap.fin_flagged : heap.sx[s].gp # 0
  /\ \E s \in Registry \ heap.fin_unmarked : heap.sx[s].gp = 0

\* C6 as stated: within one pass of RunFinalizers the finalizers are called
\* in registration order, earliest first, and only after the collection.
C6_RegistrationOrder ==
  /\ \A i, j \in 1 .. Len(log) :
       (i < j /\ log[i].pass = log[j].pass) => log[i].id < log[j].id
  /\ \A i \in 1 .. Len(log) : log[i].ncollect >= 1

\* C6, amended: within one pass of RunFinalizers the finalizers are called in
\* reverse registration order, the latest registration first, and only after
\* the collection of that R_gc_internal call has finished.
C6_ReverseOrder ==
  /\ \A i, j \in 1 .. Len(log) :
       (i < j /\ log[i].pass = log[j].pass) => log[i].id > log[j].id
  /\ \A i \in 1 .. Len(log) : log[i].ncollect >= 1

\* one pass has called two finalizers
C6_Witness ==
  \E i, j \in 1 .. Len(log) : i < j /\ log[i].pass = log[j].pass

\* C7: when RunFinalizers returns from a pass in which a finalizer raised an
\* error, the remaining flagged entries have been dealt with, the failed
\* entries are off the registry, and R_PPStackTop, R_CurrentExpr and
\* R_ToplevelContext are what they were when RunFinalizers was called.
C7_ErrorContained ==
  hist.fin.nerr > 0 =>
    /\ hist.fin.flagged = {}
    /\ hist.fin.failed \cap hist.fin.on_registry = {}
    /\ hist.fin.top_out = hist.fin.top_in
    /\ hist.fin.expr_out = hist.fin.expr_in
    /\ hist.fin.tlc_out = hist.fin.tlc_in

\* a pass has returned in which a finalizer was called after an earlier one
\* had raised an error
C7_Witness ==
  /\ hist.fin.nerr > 0
  /\ \E i \in 1 .. Len(log) : log[i].pass = hist.fin.pass /\ log[i].nerr > 0

\* what C8 says of one call of R_gc_internal, from its history g
PassLimits(g, over) ==
  /\ g.nfin <= 1
  /\ g.ncollect <= 2
  /\ g.ncollect = 2 => (g.nfin = 1 /\ g.finalizer_run /\ over)

\* C8: one call of R_gc_internal runs RunFinalizers at most once and
\* RunGenCollect at most twice; the second collection happens only after a
\* finalizer ran and left no free node or too little vector heap, and no
\* finalizer pass follows it.
C8_PassLimits ==
  /\ PassLimits(hist.gc, hist.gc.again_inuse >= hist.gc.R_NSize
                         \/ hist.gc.size_needed > hist.gc.again_vfree)
  /\ \A k \in GcFrames :
       PassLimits(ctl[k], ctl[k].again_inuse >= heap.R_NSize
                          \/ ctl[k].size_needed > ctl[k].again_vfree)

\* a call of R_gc_internal has returned after its second collection
C8_Witness == hist.gc.ncollect = 2 /\ hist.gc.nfin = 1

InvalidTarget(s) == heap.sx[s].type \notin {"ENVSXP", "EXTPTRSXP"}

InvalidFun(fun) ==
  heap.sx[fun].type \notin {"CLOSXP", "BUILTINSXP", "SPECIALSXP"}

Rejected ==
  /\ err' # ""
  /\ R_fin_registered' = R_fin_registered
  /\ FinList(heap', R_fin_registered') = FinList(heap, R_fin_registered)

\* C9: a registration whose target is no environment or external pointer, or
\* whose function is no closure, builtin, special or C finalizer, signals an
\* error and leaves the registry as it was, for R_RegisterFinalizer and for
\* R_RegisterCFinalizer.
C9_InvalidRejected ==
  [][/\ \A s \in Vals, fun \in ProtectedVals :
          (MutRegisterFinalizer(s, fun) /\ (InvalidTarget(s) \/ InvalidFun(fun)))
            => Rejected
     /\ \A s \in Vals :
          (MutRegisterCFinalizer(s) /\ InvalidTarget(s)) => Rejected]_vars

\* C10 as stated: interrupts are suspended from the start of the collection
\* until the finalizers have run.
C10_SuspendedThroughFinalizers ==
  (InGc("end_suspend") \/ InGc("in_finalizer")) => R_interrupts_suspended

\* C10, amended: interrupts are suspended while RunGenCollect runs, and are
\* back to what they were on entry to R_gc_internal before any finalizer is
\* called: finalizers run with interrupts not suspended by the collection.
C10_SuspendedDuringCollect ==
  /\ InGc("end_suspend") => R_interrupts_suspended
  /\ InGc("in_finalizer") =>
       R_interrupts_suspended = ctl[Len(ctl)].oldsusp
  /\ \A i \in 1 .. Len(log) : ~ log[i].susp

\* a finalizer is running, with interrupts enabled
C10_Witness == InGc("in_finalizer") /\ ~ R_interrupts_suspended

\* C11: protect(x) returns x and pushes x on the old stack; unprotect(k) pops
\* exactly the top k entries; protect on a full stack signals a stack overflow
\* and unprotect(k) with k above the top a stack imbalance, and when either
\* error is signalled the stack contents and the top are what they were.
C11_ProtectStack ==
  [][/\ MutProtect =>
          IF R_PPStackTop < R_PPStackSize
          THEN /\ err' = ""
               /\ reg' = reg
               /\ R_PPStackTop' = R_PPStackTop + 1
               /\ R_PPStack' = [R_PPStack EXCEPT ![R_PPStackTop] = reg]
          ELSE /\ err' = "protect(): stack overflow"
               /\ hist'.err.top = R_PPStackTop /\ hist'.err.pp = R_PPStack
     /\ \A l \in UnprotectCounts :
          MutUnprotect(l) =>
            IF l <= R_PPStackTop
            THEN /\ err' = ""
                 /\ R_PPStackTop' = R_PPStackTop - l
                 /\ R_PPStack' = R_PPStack
            ELSE /\ err' = "unprotect(): stack imbalance"
                 /\ hist'.err.top = R_PPStackTop /\ hist'.err.pp = R_PPStack]_vars

\* unprotect(2) has been called with one entry on the stack
C11_Witness ==
  /\ err = "unprotect(): stack imbalance"
  /\ hist.err.top = 1

\* C12: unprotect_ptr(x) removes exactly one entry, the topmost occurrence of
\* x: the top goes down by one and the other entries keep their order; when
\* x is not on the stack a pointer-not-found error is signalled and the stack
\* contents and the top are what they were.
C12_UnprotectPtr ==
  [][\A s \in Vals, junk \in JunkVals :
       MutUnprotectPtr(s, junk) =>
         IF \E i \in 0 .. (R_PPStackTop - 1) : R_PPStack[i] = s
         THEN /\ err' = ""
              /\ R_PPStackTop' = R_PPStackTop - 1
              /\ \E i \in 0 .. (R_PPStackTop - 1) :
                   /\ R_PPStack[i] = s
                   /\ \A j \in (i + 1) .. (R_PPStackTop - 1) : R_PPStack[j] # s
                   /\ \A k \in 0 .. (R_PPStackTop - 2) :
                        R_PPStack'[k] = IF k < i THEN R_PPStack[k]
                                        ELSE R_PPStack[k + 1]
         ELSE /\ err' = "unprotect_ptr: pointer not found"
              /\ hist'.err.top = R_PPStackTop /\ hist'.err.pp = R_PPStack]_vars

\* unprotect_ptr has taken the upper of two occurrences of a value out of a
\* full stack, from under another entry
C12_Witness ==
  /\ err = ""
  /\ hist.uptr.n > 0
  /\ hist.uptr.top = R_PPStackSize
  /\ R_PPStackTop = R_PPStackSize - 1
  /\ hist.uptr.i < R_PPStackSize - 1
  /\ R_PPStack[hist.uptr.i] # hist.uptr.s
  /\ \E k \in 0 .. (hist.uptr.i - 2) :
       R_PPStack[k] = hist.uptr.s /\ R_PPStack[k + 1] # hist.uptr.s

\* C13: an object passed to R_PreserveObject survives every collection until
\* it is released; R_ReleaseObject(x) takes exactly one occurrence of x off
\* the list, the one preserved last, keeps the other entries in their order
\* and leaves the list alone when x is not on it; so a release right after a
\* preserve gives back the list's previous entries in their order.
C13_PreciousList ==
  /\ ctl = << >> => PreciousCars(heap, R_PreciousList) = hist.precious
  /\ \A i \in 1 .. Len(hist.precious) :
       /\ InHeap(heap, hist.precious[i])
       /\ hist.precious[i] \notin FreeNodes(heap)
       /\ InGc("end_suspend") =>
            /\ NODE_IS_MARKED(heap, hist.precious[i])
            /\ hist.precious[i] \in OldNodes(heap)

\* an object has been released and is still on the list from another
\* preserve, under an object preserved after it, and the list has come
\* through a collection
C13_Witness ==
  /\ InGc("end_suspend")
  /\ Len(hist.precious) = 2
  /\ hist.precious[1] # hist.precious[2]
  /\ hist.precious[2] # R_NilValue
  /\ hist.rel.n > 0
  /\ hist.rel.object = hist.precious[2]

Allocated(h) == (OldNodes(h) \cup NewNodes(h)) \ FreeNodes(h)

\* the highest generation among n and the nodes n can be reached from
MaxGenReaching(h, n) ==
  LET from == {y \in Allocated(h) : n \in ReachFrom(h, {y})} \cup {n}
  IN CHOOSE g \in {generation(h, y) : y \in from} :
       \A y \in from : generation(h, y) <= g

PromotedTo(g) == IF g + 1 < NUM_OLD_GENERATIONS THEN g + 1 ELSE NUM_OLD_GENERATIONS

\* C15 as stated: a forced full collection promotes every node it keeps by
\* one generation up to the cap, so a fresh object kept reachable is in
\* generation 1 after the first and in generation 2 after the second; an
\* object that is no longer reachable is reclaimed by the next one.
C15_PromotedByOne ==
  [][MutDoGc =>
       /\ \A n \in Reachable :
            generation(heap', n) = PromotedTo(generation(heap, n))
       /\ \A n \in Allocated(heap) \ Reachable :
            ~ InHeap(heap', n) \/ ~ NODE_IS_MARKED(heap', n)]_vars

\* C15, amended: a forced full collection leaves a node it keeps one
\* generation (up to the cap) above the highest generation found among the
\* node and the nodes that lead to it, so a fresh object is promoted by one
\* unless an older node refers to it; an object that is no longer reachable
\* is reclaimed.
C15_PromotedWithReferrer ==
  [][MutDoGc =>
       /\ \A n \in Reachable :
            generation(heap', n) = PromotedTo(MaxGenReaching(heap, n))
       /\ \A n \in Allocated(heap) \ Reachable :
            ~ InHeap(heap', n) \/ ~ NODE_IS_MARKED(heap', n)]_vars

\* a forced full collection has taken a fresh node, which a node of
\* generation 1 refers to, to generation 2 at once
C15_Witness ==
  /\ InDoGc
  /\ InGc("end_suspend")
  /\ \E n \in Reachable :
       /\ hist.gen_in[n] = 0
       /\ generation(heap, n) = NUM_OLD_GENERATIONS
       /\ \E x \in Reachable : hist.gen_in[x] = 1 /\ heap.sx[x].car = n

AfterFull == InGc("end_suspend") /\ heap.gens_collected = NUM_OLD_GENERATIONS

\* the heap after a second full collection that follows at once: R_gc_internal
\* entered again with every generation due, the roots being what they are
SecondFull ==
  RunGenCollect([heap EXCEPT !.num_old_gens_to_collect = NUM_OLD_GENERATIONS],
                Roots(M), R_fin_registered, 0)

\* what the claim compares: where every node is, its bits, and the counters
HeapState(h) ==
  [lists |-> [p \in Pegs |-> SeqToSet(ListOf(h, p))],
   bits |-> [n \in Node |-> <<h.sx[n].mark, h.sx[n].gcgen>>],
   OldCount |-> [c \in Classes |-> h.gh[c].OldCount],
   PageCount |-> [c \in Classes |-> h.gh[c].PageCount],
   R_NodesInUse |-> h.R_NodesInUse,
   R_SmallVallocSize |-> h.R_SmallVallocSize,
   R_LargeVallocSize |-> h.R_LargeVallocSize,
   R_NSize |-> h.R_NSize, R_VSize |-> h.R_VSize]

SecondFullPromotes(h2) ==
  /\ OldNodes(h2) = OldNodes(heap)
  /\ \A n \in Node : h2.sx[n].mark = heap.sx[n].mark
  /\ \A n \in OldNodes(heap) :
       /\ generation(h2, n) = PromotedTo(generation(heap, n))
       /\ n \in SeqToSet(ListOf(h2, OldPeg(NODE_CLASS(h2, n),
                                            NODE_GENERATION(h2, n))))
  /\ h2.R_NodesInUse = heap.R_NodesInUse
  /\ h2.R_SmallVallocSize = heap.R_SmallVallocSize
  /\ \A c \in Classes : h2.gh[c].PageCount <= heap.gh[c].PageCount

CollectedFirst == Len(ctl) = 2 /\ InGc("end_suspend")

\* the vector cells the allocVector call in frame f asks the heap for
FrameAllocSize(f) == VectorAllocSize(VectorSize(f.t, f.a))

\* what the collection in progress leaves the waiting allocation with
AfterCollection ==
  /\ NO_FREE_NODES(heap) =>
       /\ err' = "cons memory exhausted (limit reached?)"
       /\ reg' = NULL
       /\ heap' = heap
  /\ /\ ~ NO_FREE_NODES(heap)
     /\ ctl[1].fn = "allocVector"
     /\ VHEAP_FREE(heap) < FrameAllocSize(ctl[1])
     => /\ err' = "vector memory exhausted (limit reached?)"
        /\ reg' = NULL
        /\ heap' = heap

\* C18: allocSExp and allocVector run a collection first exactly when gc
\* torture forces one, when NodesInUse >= NSize, or (allocVector) when
\* alloc_size is above the free vector space; if NodesInUse >= NSize still
\* holds after that collection the allocation fails with 'cons memory
\* exhausted', if the free vector space is still below alloc_size with
\* 'vector memory exhausted', and in both cases no node is handed out and no
\* counter goes up.  (cons applies the same test, but protects its two
\* arguments before it collects.)
C18_CollectWhenNeeded ==
  [][/\ MutAllocSExp("ENVSXP") =>
          (CollectedFirst' <=> (~ gc_inhibit_torture) \/ NO_FREE_NODES(heap))
     /\ \A length \in AllocLengths :
          MutAllocVector("INTSXP", length) =>
            (CollectedFirst' <=>
               \/ ~ gc_inhibit_torture
               \/ NO_FREE_NODES(heap)
               \/ VectorAllocSize(VectorSize("INTSXP", length)) > VHEAP_FREE(heap))
     /\ GcProceed /\ CollectedFirst
          /\ ctl[1].fn \in {"cons", "allocSExp", "allocVector"}
          => AfterCollection]_vars

\* with gc torture off allocVector has run a collection because the free
\* vector space was below alloc_size, and has failed because it still is
C18_Witness ==
  /\ err = "vector memory exhausted (limit reached?)"
  /\ gc_inhibit_torture
  /\ ~ NO_FREE_NODES(heap)
  /\ hist.err.fn = "allocVector"
  /\ hist.gc.ncollect > 0

\* C19: allocVector called with a negative length, or with a length whose
\* size reaches the overflow bound, signals an error before any heap
\* mutation: the call has run no collection and no finalizer, and lists,
\* generation bits, counters, NSize and VSize are as before the call.
C19_RejectedBeforeMutation ==
  [][\A length \in {l \in VecLengths :
                      l < 0 \/ VectorSize("INTSXP", l) >= MaxVecCells} :
       MutAllocVector("INTSXP", length) =>
         /\ err' # ""
         /\ ~ CollectedFirst'
         /\ heap' = heap
         /\ R_fin_registered' = R_fin_registered
         /\ reg' = NULL]_vars

\* C20: the nil singleton is the first node allocated, no collection
\* reclaims it, and its car, cdr, tag and attrib reference nil itself in
\* every reachable state, whatever public setters (SETCAR, SETCDR, SET_TAG,
\* SET_ATTRIB) have been called and whether they succeeded or signalled an
\* error.
C20_NilSelfReferencing ==
  /\ ops = MaxSetOps => Allocated(heap) = {R_NilValue}
  /\ R_NilValue \in Allocated(heap)
  /\ heap.sx[R_NilValue].car = R_NilValue
  /\ heap.sx[R_NilValue].cdr = R_NilValue
  /\ heap.sx[R_NilValue].tag = R_NilValue
  /\ heap.sx[R_NilValue].attrib = R_NilValue

\* C21: every collection runs to completion: one call of RunGenCollect
\* jumps back to again at most NUM_OLD_GENERATIONS times, every jump raises
\* the number of generations collected by one, and in one pass no node is
\* put on forwarded_nodes more than once, cyclic structures included.
C21_CollectionCompletes ==
  /\ heap.restarts <= NUM_OLD_GENERATIONS
  /\ heap.gens_collected = heap.first_level + heap.restarts
  /\ heap.gens_collected <= NUM_OLD_GENERATIONS
  /\ \A n \in Node : heap.fwd[n] <= 1
  /\ heap.forwarded_nodes = NULL

\* a collection that restarted NUM_OLD_GENERATIONS times has kept a node
\* whose car is the node itself
C21_Witness ==
  /\ heap.restarts = NUM_OLD_GENERATIONS
  /\ \E n \in Node \ {R_NilValue} :
       /\ NODE_IS_MARKED(heap, n)
       /\ heap.sx[n].type = "LISTSXP"
       /\ heap.sx[n].car = n
       /\ heap.fwd[n] = 1

\* what the large vectors in the set S added to R_LargeVallocSize
RECURSIVE SumValloc(_, _)
SumValloc(h, S) ==
  IF S = {} THEN 0
  ELSE LET s == CHOOSE s \in S : TRUE
       IN h.valloc[s] + SumValloc(h, S \ {s})

\* C22: after any collection New[LARGE] is empty: every large vector the
\* collection left unmarked has been unlinked and freed, and
\* R_LargeVallocSize has gone down by exactly the cells its allocation had
\* added; the marked large vectors are on the Old lists and their cells are
\* still counted.
C22_LargeReleased ==
  /\ heap.R_LargeVallocSize = SumValloc(heap, heap.large)
  /\ heap.gh[LARGE_NODE_CLASS].AllocCount = Cardinality(heap.large)
  /\ \A s \in heap.large :
       heap.valloc[s] = VectorSize(heap.sx[s].type, heap.sx[s].length)
  /\ InGc("end_suspend") =>
       /\ ListOf(heap, NewPeg(LARGE_NODE_CLASS)) = << >>
       /\ Reachable \cap LargeBlocks \subseteq heap.large
       /\ heap.gens_collected = NUM_OLD_GENERATIONS =>
            heap.large = Reachable \cap LargeBlocks
       /\ \A s \in heap.large :
            NODE_IS_MARKED(heap, s) /\ s \in OldNodes(heap)
       /\ \A s \in LargeBlocks \ heap.large :
            heap.nx[s] = NULL /\ heap.pv[s] = NULL /\ s \notin OldNodes(heap)

\* a collection has freed a large vector and has kept another one
C22_Witness ==
  /\ InGc("end_suspend")
  /\ Cardinality(heap.large) = 1
  /\ heap.R_LargeVallocSize > 0
  /\ hist.gen_in # [n \in Node |-> 0]
  /\ \E s \in LargeBlocks \ heap.large : reg = NULL /\ heap.nx[s] = NULL
  /\ ctl[1].fn = "allocVector"

\* node_occup > R_NGrowFrac as AdjustHeapSize works it out
NodeOccupHigh ==
  (heap.R_NodesInUse + Trunc(heap.orig_R_NSize * R_MinFreeFracPct, 100)) * 100
    > R_NGrowFracPct * heap.R_NSize

\* change, from R_NSize before the growth
GrowChange == R_NGrowIncrMin + Trunc(R_NGrowIncrFracPct * heap.R_NSize, 100)

\* C23 as stated: when a full collection ends with node_occup > NGrowFrac,
\* NSize grows by exactly change = NGrowIncrMin + NGrowIncrFrac * NSize, or
\* up to MaxNSize when MaxNSize - NSize is smaller than change; NSize does
\* not grow when node_occup <= NGrowFrac.
C23_GrowsClamped ==
  [][SizeNext =>
       IF NodeOccupHigh
       THEN heap'.R_NSize = IF heap.R_MaxNSize - heap.R_NSize >= GrowChange
                            THEN heap.R_NSize + GrowChange
                            ELSE heap.R_MaxNSize
       ELSE heap'.R_NSize <= heap.R_NSize]_vars

\* C23, amended: when a full collection ends with node_occup > NGrowFrac,
\* NSize grows by exactly change if MaxNSize - NSize >= change and is left as
\* it is otherwise; NSize does not grow when node_occup <= NGrowFrac.
C23_GrowsIfRoom ==
  [][SizeNext =>
       IF NodeOccupHigh
       THEN heap'.R_NSize = IF heap.R_MaxNSize - heap.R_NSize >= GrowChange
                            THEN heap.R_NSize + GrowChange
                            ELSE heap.R_NSize
       ELSE heap'.R_NSize <= heap.R_NSize]_vars

\* the adjustment has run on a node heap more than NGrowFrac full whose
\* limit is above NSize but less than change above it, and NSize is as it was
C23_Witness ==
  /\ ops < MaxSizeOps
  /\ NodeOccupHigh
  /\ heap.R_MaxNSize > heap.R_NSize
  /\ heap.R_MaxNSize - heap.R_NSize < GrowChange
  /\ heap.R_NSize \in SizeNSizes

\* the arguments of the call in progress or just over
CallArgs ==
  ({hist.call.a, hist.call.b}
     \cup (IF hist.call.fn = "NewEnvironment" THEN {hist.call.c} ELSE {}))

\* the returned node has the type the function gives it and the arguments
\* in its fields
ReferencesArgs(x, c) ==
  CASE c.fn = "cons" -> x.type = "LISTSXP" /\ x.car = c.a /\ x.cdr = c.b
    [] c.fn = "NewEnvironment" ->
         x.type = "ENVSXP" /\ x.car = c.b /\ x.cdr = c.c /\ x.tag = R_NilValue
    [] c.fn = "mkPROMISE" ->
         x.type = "PROMSXP" /\ x.car = R_UnboundValue /\ x.cdr = c.a /\ x.tag = c.b

\* C24: cons, NewEnvironment and mkPROMISE may be called with unprotected
\* arguments: while a collection the call has triggered is under way the
\* arguments are on the protect stack and are not reclaimed, and when the
\* call returns its node references them, they are still allocated, and
\* the protect-stack top is what it was before the call.
C24_ArgumentsSurvive ==
  hist.call.fn # "" =>
    /\ ctl # << >> =>
          /\ ctl[1].fn = hist.call.fn
          /\ CallArgs \subseteq
               {R_PPStack[i] : i \in hist.call.top .. (R_PPStackTop - 1)}
          /\ CallArgs \subseteq Allocated(heap)
          /\ \A s \in CallArgs : NODE_IS_MARKED(heap, s)
    /\ (ctl = << >> /\ err = "") =>
          /\ reg \in Allocated(heap)
          /\ ReferencesArgs(heap.sx[reg], hist.call)
          /\ CallArgs \subseteq Allocated(heap)
          /\ R_PPStackTop = hist.call.top

\* NewEnvironment has returned from a call that collected, with a list of
\* values and an enclosing environment that the caller had not protected
C24_Witness ==
  /\ hist.call.fn = "NewEnvironment"
  /\ hist.call.gc
  /\ ctl = << >> /\ err = ""
  /\ hist.call.b # R_NilValue /\ hist.call.c # R_NilValue
  /\ {hist.call.b, hist.call.c}
       \cap {R_PPStack[i] : i \in 0 .. (R_PPStackTop - 1)} = {}
  /\ heap.sx[reg].car = hist.call.b /\ heap.sx[reg].cdr = hist.call.c

\* the cells of the list x
RECURSIVE CellsOf(_, _)
CellsOf(mt, x) ==
  IF x = R_NilValue THEN {} ELSE {x} \cup CellsOf(mt, mt.cell[x].cdr)

\* C25: matchArgs(formals, supplied) leaves the supplied argument list
\* unchanged: after the call, on normal return and on every error exit,
\* each cell of supplied has the same car, cdr, tag and header flag bits
\* (including the LEVELS/gp bits) as before the call.
C25_SuppliedUnchanged ==
  [][MutMatchArgs =>
       \A c \in CellsOf(match, match.supplied) :
         /\ match'.cell[c].car = match.cell[c].car
         /\ match'.cell[c].cdr = match.cell[c].cdr
         /\ match'.cell[c].tag = match.cell[c].tag
         /\ match'.cell[c].type = match.cell[c].type
         /\ match'.cell[c].gp = match.cell[c].gp]_vars

\* the members of the list anchored at peg, found in at most k steps along
\* NEXT_NODE
RECURSIVE Members(_, _, _, _)
Members(h, s, peg, k) ==
  IF s = peg \/ s \notin Node \/ k = 0 THEN {}
  ELSE {s} \cup Members(h, h.nx[s], peg, k - 1)

MembersOf(h, peg) == Members(h, h.nx[peg], peg, Cardinality(Node))

\* NEXT_NODE leads from the peg through the members back to the peg
RECURSIVE ComesBack(_, _, _, _)
ComesBack(h, s, peg, k) ==
  IF s = peg THEN TRUE
  ELSE IF s \notin Node \/ k = 0 THEN FALSE
  ELSE ComesBack(h, h.nx[s], peg, k - 1)

Linked(h, n) ==
  /\ h.nx[n] \in Node \cup Pegs
  /\ h.pv[n] \in Node \cup Pegs
  /\ h.nx[h.pv[n]] = n
  /\ h.pv[h.nx[n]] = n

WellFormedList(h, peg) ==
  /\ ComesBack(h, h.nx[peg], peg, Cardinality(Node))
  /\ \A n \in {peg} \cup MembersOf(h, peg) : Linked(h, n)

\* C26: outside a collection every allocated node and every free slot of
\* every page (and every large vector) is a member of exactly one of the
\* lists New[c], Old[c][g], OldToNew[c][g], a slot that is not in the heap
\* is on none, and each list is a circular doubly-linked list through its
\* peg: next(prev(n)) = n = prev(next(n)) for every member and the peg.
C26_ListsWellFormed ==
  /\ \A peg \in Pegs : WellFormedList(heap, peg)
  /\ \A s \in Node :
       Cardinality({peg \in Pegs : s \in MembersOf(heap, peg)})
         = IF InHeap(heap, s) THEN 1 ELSE 0

\* a page has been released (malloc has handed out a later page that is
\* still in use), a node that a collection has kept is on an Old list, and
\* a node allocated since is on New
C26_Witness ==
  /\ ctl = << >>
  /\ \E p \in Pages, q \in Pages :
       p < q /\ p \notin UsedPages(heap) /\ q \in UsedPages(heap)
  /\ \E g \in Gens : MembersOf(heap, OldPeg(0, g)) \ {R_NilValue} # {}
  /\ MembersOf(heap, NewPeg(0)) \ FreeNodes(heap) # {}

\* C27: outside a collection every node on Old[c][g] or OldToNew[c][g] is
\* marked and has class c and generation g, every node on New[c] is
\* unmarked and has class c, every node's generation lies in
\* [0, NUM_OLD_GENERATIONS], and the collector has never printed "snapping
\* into wrong generation".
C27_ListsMatchBits ==
  /\ \A c \in Classes, g \in Gens :
       \A n \in MembersOf(heap, OldPeg(c, g)) \cup MembersOf(heap, OldToNewPeg(c, g)) :
         /\ NODE_IS_MARKED(heap, n)
         /\ NODE_CLASS(heap, n) = c
         /\ NODE_GENERATION(heap, n) = g
  /\ \A c \in Classes :
       \A n \in MembersOf(heap, NewPeg(c)) :
         ~ NODE_IS_MARKED(heap, n) /\ NODE_CLASS(heap, n) = c
  /\ \A n \in Node : NODE_GENERATION(heap, n) \in 0 .. NUM_OLD_GENERATIONS
  /\ ~ heap.wrong_gen

\* between two collections the write barrier has moved a node of
\* generation 1 to its OldToNew list; other nodes are on the Old list of
\* that generation, and a node allocated since the last collection is on New
C27_Witness ==
  /\ ctl = << >>
  /\ MembersOf(heap, OldToNewPeg(0, 1)) # {}
  /\ MembersOf(heap, OldPeg(0, 1)) # {}
  /\ MembersOf(heap, NewPeg(0)) \ FreeNodes(heap) # {}

\* the number of nodes on the lists of every class and generation
OnOldLists ==
  Cardinality(UNION {MembersOf(heap, OldPeg(c, g)) : c \in Classes, g \in Gens})

OnOldToNewLists ==
  Cardinality(UNION {MembersOf(heap, OldToNewPeg(c, g)) : c \in Classes, g \in Gens})

\* C28 as stated: after any collection at any level, NodesInUse equals the
\* total number of nodes on all Old[c][g] lists, summed over every class c
\* and generation g.
C28_InUseIsOld ==
  InGc("end_suspend") => heap.R_NodesInUse = OnOldLists

\* C28, amended: after any collection at any level, NodesInUse equals the
\* total number of nodes on all Old[c][g] and OldToNew[c][g] lists, summed
\* over every class c and generation g.
C28_InUseIsOldOrOldToNew ==
  InGc("end_suspend") => heap.R_NodesInUse = OnOldLists + OnOldToNewLists

\* a collection that did not collect every generation is over: a node of a
\* generation it left alone is still on its OldToNew list, and cons cells
\* and a vector are on Old lists
C28_Witness ==
  /\ InGc("end_suspend")
  /\ heap.gens_collected < NUM_OLD_GENERATIONS
  /\ OnOldToNewLists > 0
  /\ OnOldLists > 1
  /\ \E c \in Classes \ {0}, g \in Gens : MembersOf(heap, OldPeg(c, g)) # {}

\* C29: for every small class c < LARGE, AllocCount[c] =
\* PageCount[c] * slots_per_page(c) in every state that page allocations
\* (GetNewPage) and page releases (TryToReleasePages / ReleasePage) lead to;
\* PageCount[c] is the length of the page chain of the class.
C29_AllocCountIsPages ==
  \A c \in SmallClasses :
    /\ heap.gh[c].AllocCount = heap.gh[c].PageCount * PageSlots
    /\ heap.gh[c].PageCount = Len(heap.gh[c].pages)

\* pages of two classes are in use, and a page has been released: malloc
\* has handed out a later page that is still in use
C29_Witness ==
  /\ \E p \in Pages, q \in Pages :
       p < q /\ p \notin UsedPages(heap) /\ q \in UsedPages(heap)
  /\ heap.gh[0].PageCount > 1
  /\ heap.gh[1].PageCount > 0

\* ------------------------------------------------ the collection levels
MaxFreqOps == 9

\* the collections from one level 2 collection up to the next one that the
\* counters alone bring about
FreqPeriod == (LEVEL_0_FREQ + 1) * (LEVEL_1_FREQ + 1)

\* the calls of R_gc() right after InitMemory after which LEVEL_1_FREQ
\* level 1 collections have been done since the level 2 collection
FreqPrefix == FreqPeriod - LEVEL_0_FREQ

FreqInit == InitState(MaxFreqOps + FreqPrefix)

\* the program starts with calls of R_gc() only
Settled == ops <= MaxFreqOps

FreqNext ==
  \/ ~ Settled /\ MutGc
  \/ Settled /\ \E a \in ConsVals : MutCons(a, R_NilValue)
  \/ Settled /\ MutProtect
  \/ Settled /\ MutUnprotect(1)
  \/ Settled /\ MutGc
  \/ GcProceed

FreqSpec == FreqInit /\ [][FreqNext]_vars

\* the level 0 collections since the last collection of a higher level
\* are at most LEVEL_0_FREQ
Level0Bounded == heap.level_runs[0] <= LEVEL_0_FREQ

\* C30: counting each collection by its final level (gens_collected), at
\* most LEVEL_0_FREQ level 0 collections occur between two consecutive
\* collections of level >= 1, and at most LEVEL_1_FREQ level 1 collections
\* occur between two consecutive level 2 collections, whether a collection
\* was called for, came from an allocation or restarted at a higher level
\* for lack of free space.
C30_LevelFrequencies ==
  /\ heap.level_runs[0] <= LEVEL_0_FREQ
  /\ heap.level_runs[1] <= LEVEL_1_FREQ

\* ------------------------------------------------ the level of the next collection
\* the collection that has just stopped at end_suspend has left too few free
\* nodes or too little free vector space
Shortfall ==
  \/ heap.R_Collected * 100 < R_MinFreeFracPct * heap.R_NSize
  \/ (VHEAP_FREE(heap) - ctl[Len(ctl)].size_needed) * 100
       < R_MinFreeFracPct * heap.R_VSize

\* C31: a collection of level N < NUM_OLD_GENERATIONS that ends with fewer
\* than MinFreeFrac * NSize free nodes, or with free vector space minus
\* size_needed below MinFreeFrac * VSize, leaves num_old_gens_to_collect =
\* N + 1; otherwise, and after a full collection, it leaves 0; and every
\* collection collects at least the generations the one before asked for.
C31_NextLevel ==
  [][InGc("end_suspend")' =>
       /\ heap'.gens_collected >= heap.num_old_gens_to_collect
       /\ heap'.num_old_gens_to_collect =
            IF heap'.gens_collected < NUM_OLD_GENERATIONS /\ Shortfall'
            THEN heap'.gens_collected + 1 ELSE 0]_vars

\* a level 0 collection has ended short of free nodes but not empty-handed:
\* the next one is to collect one old generation
C31_Witness ==
  /\ InGc("end_suspend")
  /\ heap.gens_collected = 0
  /\ heap.R_Collected > 0
  /\ Shortfall
  /\ heap.num_old_gens_to_collect = 1

\* ------------------------------------------------ page release
\* C32: TryToReleasePages makes a release attempt on every
\* R_PageReleaseFreq-th collection of level >= 1; R_PageReleaseFreq is 1,
\* so every level 1 or level 2 collection goes through the page chains.
C32_ReleaseEveryTime ==
  InGc("end_suspend") /\ heap.gens_collected >= 1 => heap.release_tried

\* the nodes of class c in use after a collection: those on its Old and
\* OldToNew lists
InUseCount(c) == heap.gh[c].OldCount[0] + heap.gh[c].OldCount[1]

\* C33: TryToReleasePages frees a page of class c only if every slot of the
\* page is unmarked, a free node of New space; it frees at most
\* maxrel / slots_per_page pages, where maxrel = AllocCount[c] -
\* (1 + MaxKeepFrac) * the sum over g of OldCount[c][g], so that when it has
\* freed a page of the class at least MaxKeepFrac times the in-use count of
\* free slots remain in the class; and it leaves Free[c] = next(New[c]).
C33_ReleaseKeepsReserve ==
  /\ ~ heap.released_in_use
  /\ InGc("end_suspend") =>
       \A c \in SmallClasses :
         /\ heap.released[c] > 0 =>
              /\ heap.release_tried
              /\ heap.released[c] * PageSlots * 100
                   <= 100 * (heap.gh[c].AllocCount + heap.released[c] * PageSlots)
                      - (100 + R_MaxKeepFracPct) * InUseCount(c)
              /\ 100 * (heap.gh[c].AllocCount - InUseCount(c))
                   >= R_MaxKeepFracPct * InUseCount(c)
         /\ heap.release_tried => heap.gh[c].Free = heap.nx[NewPeg(c)]

\* a collection has released a page of a class that has nodes in use, and
\* kept a page of free nodes of that class
C33_Witness ==
  /\ InGc("end_suspend")
  /\ \E c \in SmallClasses :
       /\ heap.released[c] > 0
       /\ InUseCount(c) > 1
       /\ heap.gh[c].AllocCount - InUseCount(c) >= PageSlots

\* ------------------------------------------------- the vector heap size

\* VNeeded as AdjustHeapSize works it out for a request of size_needed
VNeededFor(size_needed) ==
  heap.R_SmallVallocSize + heap.R_LargeVallocSize + size_needed
    + Trunc(heap.orig_R_VSize * R_MinFreeFracPct, 100)

\* R_VSize after the adjustment that mirrors the one of R_NSize: set to
\* VNeeded when vect_occup > 1.0 and VNeeded < R_MaxVSize, then grown by
\* R_VGrowIncrMin + R_VGrowIncrFrac * R_VSize if R_MaxVSize leaves room
SymmetricVSize(VNeeded) ==
  LET v1 == IF VNeeded > heap.R_VSize /\ VNeeded < heap.R_MaxVSize
            THEN VNeeded ELSE heap.R_VSize
      change == R_VGrowIncrMin + Trunc(R_VGrowIncrFracPct * v1, 100)
  IN IF heap.R_MaxVSize - v1 >= change THEN v1 + change ELSE v1

\* C34: the growth rule of VSize is symmetric to that of NSize: when a full
\* collection ends with vect_occup > VGrowFrac and MaxVSize allows it, VSize
\* grows by VGrowIncrMin + VGrowIncrFrac * VSize, after first being set to
\* VNeeded when vect_occup > 1.0 and VNeeded < MaxVSize.
C34_VSizeGrowsLikeNSize ==
  [][\A size_needed \in {0, 6} :
       MutAdjustHeapSize(size_needed)
         /\ VNeededFor(size_needed) * 100 > R_VGrowFracPct * heap.R_VSize
         => heap'.R_VSize = SymmetricVSize(VNeededFor(size_needed))]_vars

\* ------------------------------------------------------ the heap limits

\* C35: in every reachable state orig_NSize <= NSize <= MaxNSize and
\* orig_VSize <= VSize <= MaxVSize: the adjustment of the heap sizes never
\* moves a size below its initial value or above its maximum, and
\* R_SetMaxNSize and R_SetMaxVSize never set a maximum below the current size.
C35_SizesWithinLimits ==
  /\ heap.orig_R_NSize <= heap.R_NSize
  /\ heap.R_NSize <= heap.R_MaxNSize
  /\ heap.orig_R_VSize <= heap.R_VSize
  /\ heap.R_VSize <= heap.R_MaxVSize

\* ------------------------------------------- when the heap sizes are adjusted

\* the request the collection in progress was asked to make room for
GcSizeNeeded == ctl[Len(ctl)].size_needed

\* the collection this step has run has adjusted the heap sizes: R_NSize and
\* R_VSize are what AdjustHeapSize makes of the sizes before the step and the
\* counters after it
SizesAdjusted ==
  LET h == AdjustHeapSize([heap' EXCEPT !.R_NSize = heap.R_NSize,
                                        !.R_VSize = heap.R_VSize],
                          GcSizeNeeded')
  IN heap'.R_NSize = h.R_NSize /\ heap'.R_VSize = h.R_VSize

SizesKept == heap'.R_NSize = heap.R_NSize /\ heap'.R_VSize = heap.R_VSize

\* C36 as stated: the heap sizes are adjusted after full collections and after
\* every other collection with gens_collected > 0, and never after a level 0
\* collection, which leaves NSize and VSize unchanged.
C36_AdjustedNearFull ==
  [][InGc("end_suspend")' =>
       IF heap'.gens_collected > 0 THEN SizesAdjusted ELSE SizesKept]_vars

\* C36, amended: the heap sizes are adjusted after full collections only; a
\* level 0 or level 1 collection leaves NSize and VSize unchanged.
C36_AdjustedWhenFull ==
  [][InGc("end_suspend")' =>
       IF heap'.gens_collected = NUM_OLD_GENERATIONS
       THEN SizesAdjusted ELSE SizesKept]_vars

\* a level 1 collection has ended on a heap whose sizes AdjustHeapSize would
\* change
C36_Witness ==
  /\ InGc("end_suspend")
  /\ heap.gens_collected = 1
  /\ AdjustHeapSize(heap, GcSizeNeeded).R_VSize # heap.R_VSize

\* ------------------------------------------------- the counts of old nodes

\* OldCount[c][g] of heap h is the number of nodes on Old[c][g] and
\* OldToNew[c][g]
OldCountIsListed(h) ==
  \A c \in Classes, g \in Gens :
    h.gh[c].OldCount[g]
      = Len(ListOf(h, OldPeg(c, g))) + Len(ListOf(h, OldToNewPeg(c, g)))

\* the heap after the collector has taken the OldToNew lists of every
\* generation back into the Old lists
Absorbed ==
  AbsorbOldToNew([heap EXCEPT !.num_old_gens_to_collect = NUM_OLD_GENERATIONS],
                 0, 0)

AtOrAfterFree(c) == SeqToSet(ListFrom(heap, heap.gh[c].Free, NewPeg(c)))

\* C38: the allocator never hands out a node that is in use: every node
\* CLASS_GET_FREE_NODE has returned was unmarked, on New[c] and not handed
\* out since it was last reclaimed; the Free pointer of a class is on its New
\* list and the nodes from it on are free; and when a collection is over,
\* with its page release and SortNodes, Free[c] = next(New[c]) and every node
\* on New[c] is free.
C38_FreeNodesOnly ==
  /\ ~ heap.handed_in_use
  /\ \A c \in Classes :
       /\ heap.gh[c].Free \in SeqToSet(ListOf(heap, NewPeg(c))) \cup {NewPeg(c)}
       /\ \A n \in AtOrAfterFree(c) :
            heap.sx[n].mark = 0 /\ n \notin heap.inuse
       /\ InGc("end_suspend") => heap.gh[c].Free = heap.nx[NewPeg(c)]

\* nodes handed out after a collection has reclaimed them, and free nodes
\* left on the New list behind them
C38_Witness ==
  /\ ctl = << >>
  /\ heap.gens_collected > 0
  /\ \E n \in heap.inuse :
       /\ hist.gen_in[n] > 0
       /\ heap.sx[n].mark = 0
       /\ AtOrAfterFree(heap.sx[n].gccls) # {}

\* --------------------------------------------- the bounds of the protect stack

\* C39: unprotect_ptr never reads or writes a slot of the protect stack at an
\* index >= R_PPStackSize, whatever the stack holds and wherever the pointer
\* it removes is, also when the stack is full (top = R_PPStackSize).
C39_WithinStack ==
  hist.uptr.n > 0 =>
    hist.uptr.rd < R_PPStackSize /\ hist.uptr.wr < R_PPStackSize

\* --------------------------------------------------- one value per formal

\* C40: in the list matchArgs returns every formal other than ... has the
\* value of at most one supplied argument, and every supplied argument is
\* bound to at most one formal or to ...: a formal matched by tag in the
\* exact or the partial pass, whatever the value matched, is not bound again
\* by the positional pass.
C40_BoundOnce ==
  match.calls > 0 /\ err = "" =>
    \A p \in match.bound, q \in match.bound :
      /\ p[1] = q[1] /\ p[1] # match.dots => p[2] = q[2]
      /\ p[2] = q[2] => p[1] = q[1]

====
